---- MODULE Spec2Model ----
(***************************************************************************)
(* State-machine model of the DeepSeek-X two-phase workflow:               *)
(*   workflow/workflow_info.py   WorkflowInfo (the workflow state tracker)  *)
(*   workflow/workflow.py        DeepSeekXWorkflow (orchestrator, executors)*)
(*   clients/deepseek_client.py  reasoning-backend stream/batch decoder     *)
(*   combinator/...combinator.py result aggregator for non-stream callers   *)
(*                                                                         *)
(* Text is a sequence of tokens; "" is the empty sequence and + is \o.     *)
(* Optional[str] is a sequence of length <= 1 holding a text.              *)
(***************************************************************************)
EXTENDS Integers, Sequences, FiniteSets, TLC

\* ------------------------------------------------------------- bounds
\* largest retry_num a phase step is configured with
MaxRetry == 1
\* most frames the reasoning backend sends in one streaming response
MaxFrames == 2
\* most chunks the summarization client yields in one streaming response
MaxChunks == 2
\* most backend calls one phase executor is followed through
MaxCalls == 2

\* ------------------------------------------------------------- text
EmptyText == <<>>

Truthy(t) == t # EmptyText

IsSpace(tok) == tok = " "

\* str.strip() leaves nothing: every token is whitespace
IsBlank(t) == \A i \in 1..Len(t) : IsSpace(t[i])

RECURSIVE LStrip(_)
LStrip(t) == IF t # <<>> /\ IsSpace(Head(t)) THEN LStrip(Tail(t)) ELSE t

RECURSIVE RStrip(_)
RStrip(t) ==
    IF t # <<>> /\ IsSpace(t[Len(t)]) THEN RStrip(SubSeq(t, 1, Len(t) - 1)) ELSE t

Strip(t) == RStrip(LStrip(t))

\* Optional values
NoneVal == <<>>

Some(t) == <<t>>

IsNone(o) == o = <<>>

\* dict.get(key) of an Optional[str] entry used where a str is expected:
\* the value when present, and "" standing for None in truth tests
OrEmpty(o) == IF IsNone(o) THEN EmptyText ELSE o[1]

InSeq(x, s) == \E i \in 1..Len(s) : s[i] = x

\* list.remove(x): drops the first occurrence
RECURSIVE RemoveFirst(_, _)
RemoveFirst(s, x) ==
    IF s = <<>> THEN <<>>
    ELSE IF Head(s) = x THEN Tail(s)
    ELSE <<Head(s)>> \o RemoveFirst(Tail(s), x)

\* ------------------------------------------------------------- WorkflowInfo
PhaseNames ==
    {"phase1_stream", "phase1_nonstream", "phase2_stream", "phase2_nonstream",
     "workflow"}

WorkflowInfoInit ==
    [ success            |-> FALSE,
      phases_executed    |-> <<>>,
      phases_succeeded   |-> <<>>,
      phases_failed      |-> <<>>,
      error              |-> NoneVal,
      reasoning_obtained |-> FALSE,
      reasoning_method   |-> "None",
      reasoning_content  |-> NoneVal,
      content_obtained   |-> FALSE,
      content            |-> NoneVal,
      end_time           |-> "None",
      errors             |-> [p \in PhaseNames |-> NoneVal] ]

\* a variant of mark_phase_executed without the membership test
mark_phase_executed_always_appends(w, phase) ==
    [w EXCEPT !.phases_executed = Append(@, phase)]

mark_phase_executed(w, phase) ==
    IF InSeq(phase, w.phases_executed) THEN w
    ELSE [w EXCEPT !.phases_executed = Append(@, phase)]

\* a variant of mark_phase_succeeded that leaves phases_failed as it is
mark_phase_succeeded_keep_failed(w, phase) ==
    LET w1 == mark_phase_executed(w, phase)
    IN  IF InSeq(phase, w1.phases_succeeded) THEN w1
        ELSE [w1 EXCEPT !.phases_succeeded = Append(@, phase)]

mark_phase_succeeded(w, phase) ==
    LET w1 == mark_phase_executed(w, phase)
        w2 == IF InSeq(phase, w1.phases_succeeded) THEN w1
              ELSE [w1 EXCEPT !.phases_succeeded = Append(@, phase)]
    IN  IF InSeq(phase, w2.phases_failed)
        THEN [w2 EXCEPT !.phases_failed = RemoveFirst(@, phase)]
        ELSE w2

\* a variant of mark_phase_failed that does not mark the phase as executed
mark_phase_failed_not_executed(w, phase, error_msg) ==
    [w EXCEPT !.phases_failed = IF InSeq(phase, @) THEN @ ELSE Append(@, phase),
              !.phases_succeeded = RemoveFirst(@, phase)]

mark_phase_failed(w, phase, error_msg) ==
    LET w1 == mark_phase_executed(w, phase)
        w2 == IF InSeq(phase, w1.phases_failed) THEN w1
              ELSE [w1 EXCEPT !.phases_failed = Append(@, phase)]
        w3 == IF InSeq(phase, w2.phases_succeeded)
              THEN [w2 EXCEPT !.phases_succeeded = RemoveFirst(@, phase)]
              ELSE w2
    IN  IF Truthy(error_msg)
        THEN [w3 EXCEPT !.errors[phase] = Some(error_msg)]
        ELSE w3

update_reasoning(w, content, method) ==
    [w EXCEPT !.reasoning_content = Some(content),
              !.reasoning_obtained = ~IsBlank(content),
              !.reasoning_method = method]

set_content(w, content) ==
    [w EXCEPT !.content = Some(content),
              !.content_obtained = ~IsBlank(content)]

set_reasoning_method(w, method) == [w EXCEPT !.reasoning_method = method]

finalize(w, success, error_msg) ==
    LET w1 == [w EXCEPT !.end_time = "stamped", !.success = success]
    IN  IF Truthy(error_msg) THEN [w1 EXCEPT !.error = Some(error_msg)] ELSE w1

get_reasoning_content(w) == w.reasoning_content

get_content(w) == w.content

\* ------------------------------------------------------------- events
\* A workflow event: the dict the generators yield.  `dict` tells that the
\* content is a dict rather than a str; `phase` is "" when the key is absent.
Event(type, content) ==
    [type |-> type, content |-> content, dict |-> FALSE, phase |-> "",
     reasoning_content |-> EmptyText]

ErrorEvent(content, phase) ==
    [type |-> "error", content |-> content, dict |-> FALSE, phase |-> phase,
     reasoning_content |-> EmptyText]

Phase1CompleteEvent(reasoning, content) ==
    [type |-> "phase1_complete", content |-> content, dict |-> FALSE,
     phase |-> "", reasoning_content |-> reasoning]

\* the {"error": message} dict of BaseClient._format_error_response: it has
\* no "type" and no "content" key, so chunk.get(...) gives ""
TransportErrorChunk ==
    [type |-> "", content |-> EmptyText, dict |-> FALSE, phase |-> "",
     reasoning_content |-> EmptyText]

\* the {"type": "error", "content": ...} dict the reasoning decoder yields when
\* reading the response body raises; it has no "phase" key
DecoderErrorChunk ==
    [type |-> "error", content |-> <<"Error processing stream response">>,
     dict |-> FALSE, phase |-> "", reasoning_content |-> EmptyText]

NumTok(n) == IF n = 0 THEN "0" ELSE IF n = 1 THEN "1" ELSE IF n = 2 THEN "2" ELSE "n"

\* the error texts of an attempt that found no content: before a retry, and
\* when the attempts are used up
Phase1StreamRetryMsg(n) ==
    <<"Streaming reasoning failed to complete, retry #", NumTok(n), "...">>

Phase1StreamFinalMsg == <<"Streaming reasoning failed to complete after retries">>

Phase1BatchRetryMsg(n) ==
    <<"Non-streaming reasoning returned empty content, attempt #", NumTok(n), "...">>

Phase1BatchFinalMsg == <<"Non-streaming reasoning repeatedly returned empty content">>

Phase2StreamRetryMsg(n) ==
    <<"Streaming summary returned empty content, attempt #", NumTok(n), "...">>

Phase2StreamFinalMsg == <<"Streaming summary repeatedly returned empty content">>

Phase2BatchRetryMsg(n) ==
    <<"Non-streaming summary returned empty content, attempt #", NumTok(n), "...">>

Phase2BatchFinalMsg == <<"Non-streaming summary repeatedly returned empty content">>

\* exceptions a client call can raise into an executor
ExcKinds == {"TimeoutError", "Connection error", "Exception"}

ExcText(e) == <<e>>

\* ------------------------------------------------------------- reasoning decoder
\* One line of the reasoning backend's response.  kind "junk" is any line the
\* decoder skips: blank, without the "data: " prefix, malformed JSON, without
\* choices or without a delta.  has_rc / has_c: the delta has the key.
Frames ==
    { [kind |-> "data", has_rc |-> hr, rc |-> r, has_c |-> hc, c |-> c, fin |-> f] :
        hr \in BOOLEAN, r \in {EmptyText, <<"R">>, <<" ">>},
        hc \in BOOLEAN, c \in {EmptyText, <<"C">>}, f \in BOOLEAN }

JunkFrame ==
    [kind |-> "junk", has_rc |-> FALSE, rc |-> EmptyText, has_c |-> FALSE,
     c |-> EmptyText, fin |-> FALSE]

StreamFrames ==
    { f \in Frames : (~f.has_rc => f.rc = EmptyText) /\ (~f.has_c => f.c = EmptyText) }
    \cup {JunkFrame}

DecoderInit ==
    [reasoning_content |-> EmptyText, accumulated_content |-> EmptyText,
     has_valid_reasoning |-> FALSE, reasoning_completed |-> FALSE]

\* a variant of IsNullWord that takes every delta for a null word
IsNullWord_every_text(t) == TRUE

IsNullWord(t) == t = <<"null">> \/ t = <<"None">>

\* a variant of DecodeFrame that takes only finish_reason "stop" as the end
\* of the reasoning and closes with reasoning_end before phase1_complete
DecodeFrame_finish_reason_only(d, f) ==
    IF f.kind # "data" THEN [d |-> d, out |-> <<>>]
    ELSE
    LET rcOk == f.has_rc /\ Truthy(f.rc)
        d1 == IF rcOk
              THEN [d EXCEPT !.reasoning_content = @ \o f.rc,
                             !.has_valid_reasoning = TRUE]
              ELSE d
        cOk == f.has_c /\ ~d1.has_valid_reasoning /\ Truthy(f.c)
        d2 == IF cOk
              THEN [d1 EXCEPT !.accumulated_content = @ \o f.c,
                              !.reasoning_content = d1.accumulated_content \o f.c,
                              !.has_valid_reasoning = TRUE]
              ELSE d1
    IN  [d |-> d2,
         out |-> (IF rcOk THEN <<Event("reasoning", f.rc)>> ELSE <<>>)
                 \o (IF cOk THEN <<Event("reasoning", f.c), Event("content", f.c)>>
                     ELSE <<>>)
                 \o (IF f.fin
                     THEN << Event("reasoning_end", EmptyText),
                             Phase1CompleteEvent(d2.reasoning_content,
                                                 d2.accumulated_content) >>
                     ELSE <<>>)]

\* a variant of DecodeFrame for which a line it cannot decode is an error
DecodeFrame_junk_is_an_error(d, f) ==
    IF f.kind # "data" THEN [d |-> d, out |-> <<DecoderErrorChunk>>]
    ELSE DecodeFrame_finish_reason_only(d, f)

\* a variant of DecodeFrame that yields a content chunk for every non-empty
\* content delta, whatever was seen before
DecodeFrame_content_always_emitted(d, f) ==
    IF f.kind # "data" THEN [d |-> d, out |-> <<>>]
    ELSE
    LET first == ~d.has_valid_reasoning /\ ~Truthy(f.rc) /\ Truthy(f.c)
    IN  [d |-> [d EXCEPT !.reasoning_content = @ \o f.rc
                                               \o (IF first THEN f.c ELSE EmptyText),
                         !.accumulated_content = @ \o f.c,
                         !.has_valid_reasoning = @ \/ Truthy(f.rc) \/ Truthy(f.c)],
         out |-> (IF Truthy(f.rc) THEN <<Event("reasoning", f.rc)>> ELSE <<>>)
                 \o (IF first THEN <<Event("reasoning", f.c)>> ELSE <<>>)
                 \o (IF Truthy(f.c) THEN <<Event("content", f.c)>> ELSE <<>>)]

\* DeepSeekClient._process_stream_response, the body run for one line:
\* the decoder's next locals and the chunks it yields for that line
DecodeFrame(d, f) ==
    IF f.kind # "data" THEN [d |-> d, out |-> <<>>]
    ELSE
    LET rcOk == f.has_rc /\ Truthy(f.rc) /\ ~IsNullWord(f.rc)
        d1 == IF rcOk
              THEN [d EXCEPT !.reasoning_content = @ \o f.rc,
                             !.has_valid_reasoning = TRUE]
              ELSE IF f.has_rc /\ d.has_valid_reasoning /\ ~d.reasoning_completed
              THEN [d EXCEPT !.reasoning_completed = TRUE]
              ELSE d
        out1 == IF rcOk THEN <<Event("reasoning", f.rc)>> ELSE <<>>
        cOk == f.has_c /\ ~d1.has_valid_reasoning /\ Truthy(f.c) /\ ~IsNullWord(f.c)
        d2 == IF cOk
              THEN [d1 EXCEPT !.accumulated_content = @ \o f.c,
                              !.reasoning_content = d1.accumulated_content \o f.c,
                              !.has_valid_reasoning = TRUE]
              ELSE d1
        out2 == IF cOk THEN <<Event("reasoning", f.c), Event("content", f.c)>>
                ELSE <<>>
        out3 == IF d2.reasoning_completed \/ f.fin
                THEN << Phase1CompleteEvent(
                            IF d2.has_valid_reasoning THEN d2.reasoning_content
                            ELSE EmptyText,
                            d2.accumulated_content),
                        Event("reasoning_end", EmptyText) >>
                ELSE <<>>
    IN  [d |-> d2, out |-> out1 \o out2 \o out3]

\* ------------------------------------------------------------- summarization decoder
\* The bytes of a summarization response, as symbols: the line feed, the
\* "data: " prefix of a line, and what follows the prefix: a JSON object with
\* choices[0].delta.content and choices[0].finish_reason, or the word [DONE].
NL == [t |-> "nl", content |-> EmptyText, finish |-> ""]

DataPrefix == [t |-> "data", content |-> EmptyText, finish |-> ""]

DoneWord == [t |-> "done", content |-> EmptyText, finish |-> ""]

JsonBodies ==
    { [t |-> "json", content |-> <<"A">>, finish |-> ""],
      [t |-> "json", content |-> <<"B">>, finish |-> ""],
      [t |-> "json", content |-> EmptyText, finish |-> "stop"],
      [t |-> "json", content |-> <<"A">>, finish |-> "length"] }

SDecoderInit == [buffer |-> <<>>]

\* index of the first line feed of a text, 0 if there is none
FirstNL(s) ==
    IF \E i \in 1..Len(s) : s[i] = NL
    THEN CHOOSE i \in 1..Len(s) : s[i] = NL /\ \A j \in 1..(i - 1) : s[j] # NL
    ELSE 0

\* str.strip() on these symbols: the line feeds at both ends go
RECURSIVE StripNL(_)
StripNL(s) ==
    IF s = <<>> THEN s
    ELSE IF Head(s) = NL THEN StripNL(Tail(s))
    ELSE IF s[Len(s)] = NL THEN StripNL(SubSeq(s, 1, Len(s) - 1))
    ELSE s

\* json.loads of what follows "data: " succeeds: one whole JSON object
IsJsonObject(s) == Len(s) = 1 /\ s[1].t = "json"

\* _process_stream_response: the `while '\n' in buffer` loop.
\* st = [buffer, out: the texts yielded]
RECURSIVE SDecodeLines(_)
SDecodeLines(st) ==
    LET i == FirstNL(st.buffer)
        current_line == StripNL(SubSeq(st.buffer, 1, i - 1))
        rest == [st EXCEPT !.buffer = SubSeq(st.buffer, i + 1, Len(st.buffer))]
    IN  IF i = 0 THEN st
        ELSE IF current_line = <<>> THEN SDecodeLines(rest)
        ELSE IF current_line = <<DataPrefix, DoneWord>> THEN rest
        ELSE IF Head(current_line) = DataPrefix /\ IsJsonObject(Tail(current_line))
        THEN LET choice == current_line[2]
                 yielded == IF Truthy(choice.content)
                            THEN [rest EXCEPT !.out = Append(@, choice.content)]
                            ELSE rest
             IN  IF choice.finish \in {"stop", "length"} THEN yielded
                 ELSE SDecodeLines(yielded)
        ELSE SDecodeLines(rest)

\* _process_stream_response: the body of `async for line` for one read
SDecodeRead(d, read) ==
    LET st == SDecodeLines([buffer |-> d.buffer \o read, out |-> <<>>])
    IN  [d |-> [buffer |-> st.buffer], out |-> st.out]

\* _process_stream_response after the reads: the remaining buffer
SDecodeRemaining(d) ==
    LET b == StripNL(d.buffer)
    IN  IF b # <<>> /\ Head(b) = DataPrefix /\ Len(b) > 1
             /\ b # <<DataPrefix, DoneWord>>
             /\ IsJsonObject(Tail(b)) /\ Truthy(b[2].content)
        THEN <<b[2].content>>
        ELSE <<>>

\* the decoder run over a whole sequence of reads: the texts it yields
RECURSIVE SDecodeAll(_, _)
SDecodeAll(d, reads) ==
    IF reads = <<>> THEN SDecodeRemaining(d)
    ELSE LET r == SDecodeRead(d, Head(reads))
         IN  r.out \o SDecodeAll(r.d, Tail(reads))

\* a byte stream cut after each line feed: every frame in a read of its own
RECURSIVE ReadsByFrame(_)
ReadsByFrame(s) ==
    LET i == FirstNL(s)
    IN  IF s = <<>> THEN <<>>
        ELSE IF i = 0 THEN <<s>>
        ELSE <<SubSeq(s, 1, i)>> \o ReadsByFrame(SubSeq(s, i + 1, Len(s)))

\* ------------------------------------------------------------- phase 1, streaming
Phase1Init ==
    [retry_count |-> 0, reasoning_content |-> EmptyText, content |-> EmptyText,
     reasoning_started |-> FALSE, phase1_completed |-> FALSE, nframes |-> 0]

\* error_phase.startswith("phase1") and "critical" in error_content.lower()
IsCriticalPhase1Error(ch) ==
    /\ ch.phase \in {"phase1", "phase1_stream", "phase1_nonstream"}
    /\ InSeq("critical", ch.content)

\* a variant of HandlePhase1Chunk that records every chunk's text as obtained
\* reasoning and the phase as succeeded, completion signal or not
HandlePhase1Chunk_succeeds_on_any_chunk(h, ch) ==
    [h EXCEPT !.l.reasoning_content = @ \o ch.content,
              !.w = mark_phase_succeeded(
                        update_reasoning(@, ch.content, "stream"), "phase1_stream")]

\* a variant of HandlePhase1Chunk that forwards every chunk and never leaves
\* the loop
HandlePhase1Chunk_reads_on(h, ch) == [h EXCEPT !.out = Append(@, ch)]

\* _process_phase1_stream, the body of `async for chunk` for one chunk.
\* h = [l: the executor's locals, w: WorkflowInfo, out: events yielded,
\*      brk: the loop was left by break]
HandlePhase1Chunk(h, ch) ==
    IF ch.type = "reasoning" THEN
        [h EXCEPT !.l.reasoning_content = @ \o ch.content,
                  !.l.reasoning_started = TRUE,
                  !.out = Append(@, Event("reasoning", ch.content))]
    ELSE IF ch.type = "phase1_complete" THEN
        LET rc == IF Truthy(ch.reasoning_content) THEN ch.reasoning_content
                  ELSE h.l.reasoning_content
            c  == IF Truthy(ch.content) THEN ch.content ELSE h.l.content
            final_reasoning == IF ~IsBlank(rc) THEN rc ELSE c
            w1 == update_reasoning(h.w, final_reasoning, "stream")
            w2 == set_reasoning_method(set_content(w1, c), "stream")
            w3 == mark_phase_succeeded(
                      mark_phase_executed(w2, "phase1_stream"), "phase1_stream")
            late == Truthy(rc) /\ ~h.l.reasoning_started
            o1 == IF late THEN <<Event("reasoning", rc)>> ELSE <<>>
            o2 == IF Truthy(c) /\ ~Truthy(rc) THEN <<Event("content", c)>> ELSE <<>>
        IN  [h EXCEPT !.l.reasoning_content = rc,
                      !.l.content = c,
                      !.l.reasoning_started = @ \/ late,
                      !.l.phase1_completed = TRUE,
                      !.w = w3,
                      !.out = @ \o o1 \o o2
                                \o <<Phase1CompleteEvent(final_reasoning, c)>>,
                      !.brk = TRUE]
    ELSE IF ch.type = "reasoning_end" THEN
        [h EXCEPT !.out = IF h.l.reasoning_started
                          THEN Append(@, Event("reasoning_end", EmptyText)) ELSE @,
                  !.brk = TRUE]
    ELSE IF ch.type = "error" THEN
        [h EXCEPT !.brk = IsCriticalPhase1Error(ch)]
    ELSE h

\* the chunks one line decodes to, consumed in order until a break
RECURSIVE HandlePhase1Chunks(_, _)
HandlePhase1Chunks(h, chunks) ==
    IF chunks = <<>> \/ h.brk THEN h
    ELSE HandlePhase1Chunks(HandlePhase1Chunk(h, Head(chunks)), Tail(chunks))

VARIABLES
    cfg,        \* the workflow configuration read by process()
    pc,         \* where process() stands
    wi,         \* this run's WorkflowInfo
    events,     \* the events process() has yielded, in order
    calls1,     \* backend calls made by the phase-1 executor
    calls2,     \* backend calls made by the phase-2 executor
    ctx2,       \* assistant_message of each phase-2 backend call, in order
    cb_calls,   \* arguments of each on_workflow_complete invocation
    p1,         \* locals of the phase-1 executor
    dec,        \* locals of the reasoning-backend stream decoder
    p2,         \* locals of the phase-2 executor
    sdec,       \* locals of the summarization-backend stream decoder
    feed,       \* what a decoder run on its own has read so far
    emitted,    \* what a decoder run on its own has yielded so far
    runs        \* process() calls followed side by side: concurrent runs of one
                \* workflow instance, or runs set against one another

vars ==
    <<cfg, pc, wi, events, calls1, calls2, ctx2, cb_calls, p1, dec, p2, sdec, feed,
      emitted, runs>>

\* ------------------------------------------------------------- configuration
\* workflow_config: the mode of each phase's first step ("none": the step
\* list is empty or missing), its retry_num, and whether an
\* on_workflow_complete callback is registered
Configs ==
    { c \in [p1 : {"none", "stream", "nonstream"},
             p2 : {"none", "stream", "nonstream"},
             retry1 : 0..MaxRetry, retry2 : 0..MaxRetry,
             callback : BOOLEAN] :
        /\ (c.p1 = "none" => c.retry1 = 0)
        /\ (c.p2 = "none" => c.retry2 = 0) }

Phase2Init ==
    [retry_count |-> 0, summary_content |-> EmptyText, summary_success |-> FALSE,
     reasoning_content |-> NoneVal, nchunks |-> 0]

Init ==
    /\ cfg \in Configs
    /\ pc = "start"
    /\ wi = WorkflowInfoInit
    /\ events = <<>>
    /\ calls1 = 0
    /\ calls2 = 0
    /\ ctx2 = <<>>
    /\ cb_calls = <<>>
    /\ p1 = Phase1Init
    /\ dec = DecoderInit
    /\ p2 = Phase2Init
    /\ sdec = SDecoderInit
    /\ feed = <<>>
    /\ emitted = <<>>
    /\ runs = <<>>

\* the `while retry_count <= 0` test of the four executors; the step's
\* retry_num is not consulted
RetryLoopContinues(retry_count, retry_num) == retry_count <= 0

\* the `if retry_count <= 0` test that chooses the retry message over the final one
RetryMessageChosen(retry_count, retry_num) == retry_count <= 0

Phase1Entry ==
    IF cfg.p1 = "stream" THEN "p1s_call"
    ELSE IF cfg.p1 = "nonstream" THEN "p1n_call"
    ELSE IF cfg.p2 = "stream" THEN "p2s_call" ELSE "p2n_call"

Phase2Entry == IF cfg.p2 = "stream" THEN "p2s_call" ELSE "p2n_call"

\* a variant of Start without the test for missing phase-2 steps
Start_without_phase2_check ==
    /\ pc = "start"
    /\ pc' = Phase1Entry
    /\ UNCHANGED <<cfg, runs, sdec, feed, emitted, wi, events, calls1, calls2, ctx2, cb_calls, p1, dec, p2>>

\* process(): reading the configuration, up to the first executor
Start ==
    /\ pc = "start"
    /\ IF cfg.p2 = "none"
       THEN LET msg == <<"Invalid workflow configuration: missing phase2 step configurations">>
            IN  /\ wi' = mark_phase_failed(wi, "workflow", msg)
                /\ events' = Append(events,
                       Event("error", <<"Workflow processing failed: ">> \o msg))
                /\ pc' = "done"
       ELSE /\ pc' = Phase1Entry
            /\ UNCHANGED <<wi, events>>
    /\ UNCHANGED <<cfg, runs, sdec, feed, emitted, calls1, calls2, ctx2, cb_calls, p1, dec, p2>>

\* _process_phase1_stream: one pass of the retry loop reaches stream_chat
P1StreamCall ==
    /\ pc = "p1s_call"
    /\ calls1 < MaxCalls
    /\ calls1' = calls1 + 1
    /\ dec' = DecoderInit
    /\ p1' = [p1 EXCEPT !.nframes = 0]
    /\ pc' = "p1s_read"
    /\ UNCHANGED <<cfg, runs, sdec, feed, emitted, wi, events, calls2, ctx2, cb_calls, p2>>

\* a variant of Phase1StreamAfterFor that yields the reasoning once more
\* after the loop
Phase1StreamAfterFor_replays_reasoning(l) ==
    [l |-> l, out |-> <<Event("reasoning", l.reasoning_content)>>,
     next |-> Phase2Entry]

\* _process_phase1_stream after the `async for`: [l, out, next]
Phase1StreamAfterFor(l) ==
    IF l.phase1_completed
    THEN [l |-> l, out |-> <<>>, next |-> Phase2Entry]
    ELSE LET rc == l.retry_count + 1
             ev == IF RetryMessageChosen(rc, cfg.retry1)
                   THEN ErrorEvent(Phase1StreamRetryMsg(rc), "phase1")
                   ELSE ErrorEvent(Phase1StreamFinalMsg, "phase1")
         IN  [l |-> [l EXCEPT !.retry_count = rc], out |-> <<ev>>,
              next |-> IF RetryLoopContinues(rc, cfg.retry1)
                       THEN "p1s_call" ELSE Phase2Entry]

\* the backend sends one more line: the decoder turns it into chunks and the
\* executor consumes them
P1StreamFrame ==
    /\ pc = "p1s_read"
    /\ p1.nframes < MaxFrames
    /\ \E f \in StreamFrames :
        LET r == DecodeFrame(dec, f)
            h == HandlePhase1Chunks(
                     [l |-> p1, w |-> wi, out |-> <<>>, brk |-> FALSE], r.out)
            a == Phase1StreamAfterFor(h.l)
        IN  /\ dec' = r.d
            /\ wi' = h.w
            /\ IF h.brk
               THEN /\ p1' = a.l
                    /\ events' = events \o h.out \o a.out
                    /\ pc' = a.next
               ELSE /\ p1' = [h.l EXCEPT !.nframes = @ + 1]
                    /\ events' = events \o h.out
                    /\ pc' = pc
    /\ UNCHANGED <<cfg, runs, sdec, feed, emitted, calls1, calls2, ctx2, cb_calls, p2>>

\* the response ends: cleanly, or with the transport's {"error": ...} dict, or
\* with the decoder's error chunk; the executor finds no completion
P1StreamEnd ==
    /\ pc = "p1s_read"
    /\ \E last \in {<<>>, <<TransportErrorChunk>>, <<DecoderErrorChunk>>} :
        LET h == HandlePhase1Chunks(
                     [l |-> p1, w |-> wi, out |-> <<>>, brk |-> FALSE], last)
            a == Phase1StreamAfterFor(h.l)
        IN  /\ wi' = h.w
            /\ p1' = a.l
            /\ events' = events \o h.out \o a.out
            /\ pc' = a.next
    /\ UNCHANGED <<cfg, runs, sdec, feed, emitted, calls1, calls2, ctx2, cb_calls, dec, p2>>

\* stream_chat raises into the executor: the three except clauses
P1StreamRaise ==
    /\ pc = "p1s_read"
    /\ \E e \in ExcKinds :
        LET rc == p1.retry_count + 1
        IN  IF e = "TimeoutError" THEN
                /\ p1' = [p1 EXCEPT !.retry_count = rc]
                /\ IF RetryMessageChosen(rc, cfg.retry1)
                   THEN /\ events' = Append(events, ErrorEvent(
                                <<"Streaming reasoning timeout, retrying...">>, "phase1"))
                        /\ pc' = IF RetryLoopContinues(rc, cfg.retry1)
                                 THEN "p1s_call" ELSE Phase2Entry
                   ELSE /\ events' = Append(events, ErrorEvent(
                                <<"Streaming reasoning still timed out after ", NumTok(rc),
                                  " retries: ">> \o ExcText(e), "phase1"))
                        /\ pc' = Phase2Entry
            ELSE IF e = "Connection error" THEN
                /\ p1' = [p1 EXCEPT !.retry_count = rc]
                /\ events' = Append(events,
                       IF RetryMessageChosen(rc, cfg.retry1)
                       THEN ErrorEvent(<<"Connection error, retrying in ", NumTok(5 * rc),
                                         " seconds...">>, "phase1")
                       ELSE ErrorEvent(<<"Connection error after retries">>, "phase1"))
                /\ pc' = IF RetryLoopContinues(rc, cfg.retry1)
                         THEN "p1s_call" ELSE Phase2Entry
            ELSE
                /\ p1' = p1
                /\ events' = Append(events, ErrorEvent(
                       <<"Streaming reasoning error: ">> \o ExcText(e), "phase1"))
                /\ pc' = Phase2Entry
    /\ UNCHANGED <<cfg, runs, sdec, feed, emitted, wi, calls1, calls2, ctx2, cb_calls, dec, p2>>

\* ------------------------------------------------------------- phase 1, batch
\* what DeepSeekClient.nonstream_chat returns, as result.get("reasoning", "")
\* and result.get("content", ""): both empty for an {"error": ...} dict; the
\* same text twice when the answer carries no reasoning markers
Phase1BatchResults ==
    { [reasoning |-> r, content |-> c] :
        r \in {EmptyText, <<"R">>}, c \in {EmptyText, <<"C">>} }
    \cup { [reasoning |-> <<"C">>, content |-> <<"C">>],
           [reasoning |-> <<" ">>, content |-> <<" ">>] }

\* _process_phase1_nonstream after the `while`: the closing error event
Phase1BatchAfterLoop ==
    <<Event("error", <<"All attempts to obtain reasoning content failed">>)>>

\* one pass of the retry loop of _process_phase1_nonstream with the call returning
P1BatchCall ==
    /\ pc = "p1n_call"
    /\ calls1 < MaxCalls
    /\ calls1' = calls1 + 1
    /\ \E result \in Phase1BatchResults :
        IF Truthy(result.reasoning) \/ Truthy(result.content)
        THEN LET w1 == IF Truthy(result.reasoning)
                       THEN set_reasoning_method(
                                update_reasoning(wi, result.reasoning, "nonstream"),
                                "nonstream")
                       ELSE set_reasoning_method(
                                update_reasoning(wi, result.content, "nonstream"),
                                "nonstream")
                 o1 == IF Truthy(result.reasoning)
                       THEN <<Event("reasoning", result.reasoning)>>
                       ELSE <<Event("reasoning", result.content)>>
                 w2 == IF Truthy(result.content) THEN set_content(w1, result.content)
                       ELSE w1
                 o2 == IF Truthy(result.content)
                       THEN <<Event("content", result.content)>> ELSE <<>>
             IN  /\ wi' = mark_phase_succeeded(
                              mark_phase_executed(w2, "phase1_nonstream"),
                              "phase1_nonstream")
                 /\ events' = events \o o1 \o o2
                 /\ p1' = p1
                 /\ pc' = Phase2Entry
        ELSE LET rc == p1.retry_count + 1
                 ev == IF RetryMessageChosen(rc, cfg.retry1)
                       THEN Event("error", Phase1BatchRetryMsg(rc))
                       ELSE Event("error", Phase1BatchFinalMsg)
                 again == RetryLoopContinues(rc, cfg.retry1)
             IN  /\ wi' = wi
                 /\ p1' = [p1 EXCEPT !.retry_count = rc]
                 /\ events' = events \o <<ev>>
                               \o (IF again THEN <<>> ELSE Phase1BatchAfterLoop)
                 /\ pc' = IF again THEN "p1n_call" ELSE Phase2Entry
    /\ UNCHANGED <<cfg, runs, sdec, feed, emitted, calls2, ctx2, cb_calls, dec, p2>>

\* one pass of the retry loop of _process_phase1_nonstream with the call raising
P1BatchRaise ==
    /\ pc = "p1n_call"
    /\ calls1 < MaxCalls
    /\ calls1' = calls1 + 1
    /\ \E e \in ExcKinds :
        IF e = "TimeoutError"
        THEN LET rc == p1.retry_count + 1
                 ev == IF RetryMessageChosen(rc, cfg.retry1)
                       THEN Event("error", <<"Non-streaming reasoning timeout, attempt #",
                                             NumTok(rc), "...">>)
                       ELSE Event("error", <<"Non-streaming reasoning timed out after ",
                                             NumTok(rc), " attempts: ">> \o ExcText(e))
                 again == RetryLoopContinues(rc, cfg.retry1)
             IN  /\ p1' = [p1 EXCEPT !.retry_count = rc]
                 /\ events' = events \o <<ev>>
                               \o (IF again THEN <<>> ELSE Phase1BatchAfterLoop)
                 /\ pc' = IF again THEN "p1n_call" ELSE Phase2Entry
        ELSE LET again == RetryLoopContinues(p1.retry_count, cfg.retry1)
             IN  /\ p1' = p1
                 /\ events' = events
                       \o <<Event("error", <<"Non-streaming reasoning failed: ">>
                                              \o ExcText(e))>>
                       \o (IF again THEN <<>> ELSE Phase1BatchAfterLoop)
                 /\ pc' = IF again THEN "p1n_call" ELSE Phase2Entry
    /\ UNCHANGED <<cfg, runs, sdec, feed, emitted, wi, calls2, ctx2, cb_calls, dec, p2>>

\* ------------------------------------------------------------- phase 2, streaming
\* the str chunks OpenAICompatibleClient.stream_chat yields (non-empty texts)
Phase2Chunks == {<<"S">>, <<"None">>}

\* str() of the transport's {"error": ...} dict, which stream_chat yields as a
\* last chunk when the request fails
ErrorDictText == <<"{'error': 'OpenAI Compatible API Error: ...'}">>

SummaryEvent(content, isdict) ==
    [type |-> "summary", content |-> content, dict |-> isdict, phase |-> "",
     reasoning_content |-> EmptyText]

\* _process_phase2_stream: the assistant_message built from the WorkflowInfo
Phase2StreamContext(w) ==
    LET reasoning_content == OrEmpty(get_reasoning_content(w))
        content == OrEmpty(get_content(w))
    IN  IF Truthy(reasoning_content) /\ ~IsBlank(reasoning_content)
        THEN reasoning_content
        ELSE IF Truthy(content) /\ ~IsBlank(content) THEN content
        ELSE EmptyText

\* one pass of the retry loop of _process_phase2_stream reaches stream_chat
P2StreamCall ==
    /\ pc = "p2s_call"
    /\ calls2 < MaxCalls
    /\ calls2' = calls2 + 1
    /\ ctx2' = Append(ctx2, Phase2StreamContext(wi))
    /\ p2' = [p2 EXCEPT !.reasoning_content = get_reasoning_content(wi),
                        !.nchunks = 0]
    /\ pc' = "p2s_read"
    /\ UNCHANGED <<cfg, runs, sdec, feed, emitted, wi, events, calls1, cb_calls, p1, dec>>

\* a variant of Phase2StreamAfterLoop that yields phase 1's reasoning as a
\* reasoning event when no summary was obtained
Phase2StreamAfterLoop_yields_reasoning(l, w) ==
    IF l.summary_success
    THEN [w |-> mark_phase_succeeded(w, "phase2_stream"), out |-> <<>>]
    ELSE [w |-> mark_phase_failed(w, "phase2_stream",
                                  <<"Unable to obtain summary content">>),
          out |-> IF Truthy(OrEmpty(l.reasoning_content))
                  THEN <<Event("reasoning", OrEmpty(l.reasoning_content))>>
                  ELSE <<>>]

\* _process_phase2_stream after the `while`: [w, out]
Phase2StreamAfterLoop(l, w) ==
    IF l.summary_success
    THEN [w |-> mark_phase_succeeded(w, "phase2_stream"), out |-> <<>>]
    ELSE [w |-> mark_phase_failed(w, "phase2_stream",
                                  <<"Unable to obtain summary content">>),
          out |-> IF Truthy(OrEmpty(l.reasoning_content))
                  THEN <<ErrorEvent(
                           <<"Unable to obtain summary content, using reasoning content as response">>,
                           "phase2")>>
                  ELSE <<>>]

\* the summarization client yields one more str chunk
P2StreamChunk ==
    /\ pc = "p2s_read"
    /\ p2.nchunks < MaxChunks
    /\ \E chunk_content \in Phase2Chunks :
        /\ events' = Append(events, SummaryEvent(chunk_content, FALSE))
        /\ p2' = [p2 EXCEPT !.summary_content = @ \o chunk_content,
                            !.nchunks = @ + 1]
    /\ UNCHANGED <<cfg, runs, sdec, feed, emitted, pc, wi, calls1, calls2, ctx2, cb_calls, p1, dec>>

\* the response ends, cleanly or with the transport's error dict as last
\* chunk: summary_end, the emptiness test, and the end of the loop
P2StreamEnd ==
    /\ pc = "p2s_read"
    /\ \E failed \in BOOLEAN :
        LET o1 == IF failed THEN <<SummaryEvent(ErrorDictText, TRUE)>> ELSE <<>>
            sc == IF failed THEN p2.summary_content \o ErrorDictText
                  ELSE p2.summary_content
            o2 == <<Event("summary_end", EmptyText)>>
        IN  IF Truthy(sc) /\ Strip(sc) # <<"None">>
            THEN LET l == [p2 EXCEPT !.summary_content = sc, !.summary_success = TRUE]
                     a == Phase2StreamAfterLoop(
                              l, mark_phase_succeeded(wi, "phase2_stream"))
                 IN  /\ p2' = l
                     /\ wi' = a.w
                     /\ events' = events \o o1 \o o2 \o a.out
                     /\ pc' = "finalize"
            ELSE LET rc == p2.retry_count + 1
                     l == [p2 EXCEPT !.summary_content = sc, !.retry_count = rc]
                     retry == RetryMessageChosen(rc, cfg.retry2)
                     error_msg == Phase2StreamFinalMsg
                     ev == IF retry
                           THEN ErrorEvent(Phase2StreamRetryMsg(rc), "phase2_stream")
                           ELSE ErrorEvent(error_msg, "phase2_stream")
                     w1 == IF retry THEN wi
                           ELSE mark_phase_failed(wi, "phase2_stream", error_msg)
                     again == RetryLoopContinues(rc, cfg.retry2)
                     a == Phase2StreamAfterLoop(l, w1)
                 IN  /\ p2' = l
                     /\ wi' = IF again THEN w1 ELSE a.w
                     /\ events' = events \o o1 \o o2 \o <<ev>>
                                   \o (IF again THEN <<>> ELSE a.out)
                     /\ pc' = IF again THEN "p2s_call" ELSE "finalize"
    /\ UNCHANGED <<cfg, runs, sdec, feed, emitted, calls1, calls2, ctx2, cb_calls, p1, dec>>

\* stream_chat raises into the executor: the two except clauses
P2StreamRaise ==
    /\ pc = "p2s_read"
    /\ \E e \in ExcKinds :
        IF e = "TimeoutError"
        THEN LET rc == p2.retry_count + 1
                 l == [p2 EXCEPT !.retry_count = rc]
                 retry == RetryMessageChosen(rc, cfg.retry2)
                 error_msg == <<"Summary phase timed out after ", NumTok(rc),
                                " attempts: ">> \o ExcText(e)
                 ev == IF retry
                       THEN ErrorEvent(<<"Summary phase timeout, attempt #", NumTok(rc),
                                         "...">>, "phase2_stream")
                       ELSE ErrorEvent(error_msg, "phase2_stream")
                 w1 == IF retry THEN wi
                       ELSE mark_phase_failed(wi, "phase2_stream", error_msg)
                 again == RetryLoopContinues(rc, cfg.retry2)
                 a == Phase2StreamAfterLoop(l, w1)
             IN  /\ p2' = l
                 /\ wi' = IF again THEN w1 ELSE a.w
                 /\ events' = events \o <<ev>> \o (IF again THEN <<>> ELSE a.out)
                 /\ pc' = IF again THEN "p2s_call" ELSE "finalize"
        ELSE LET error_msg == <<"Summary phase failed: ">> \o ExcText(e)
                 a == Phase2StreamAfterLoop(
                          p2, mark_phase_failed(wi, "phase2_stream", error_msg))
             IN  /\ p2' = p2
                 /\ wi' = a.w
                 /\ events' = events \o <<ErrorEvent(error_msg, "phase2_stream")>>
                               \o a.out
                 /\ pc' = "finalize"
    /\ UNCHANGED <<cfg, runs, sdec, feed, emitted, calls1, calls2, ctx2, cb_calls, p1, dec>>

\* ------------------------------------------------------------- phase 2, batch
\* workflow_info.get_reasoning(): WorkflowInfo defines get_reasoning_content
\* and no get_reasoning, so the attribute lookup raises AttributeError
get_reasoning(w) == [raised |-> TRUE, value |-> NoneVal]

\* the content OpenAICompatibleClient.nonstream_chat returns ("" for an
\* {"error": ...} dict or a body without text)
Phase2BatchResults == {EmptyText, <<"S">>}

\* _process_phase2_nonstream, its single pass, for the backend answering
\* `answer`: [raised, called, ctx, result, w]
Phase2Nonstream(w, answer) ==
    LET g == get_reasoning(w)
        reasoning_content == OrEmpty(g.value)
        content == OrEmpty(get_content(w))
        raised == g.raised \/ IsNone(g.value)
        assistant_message == IF ~IsBlank(reasoning_content) THEN reasoning_content
                             ELSE content
        rc == 1
    IN  IF raised
        THEN [called |-> FALSE, ctx |-> EmptyText, w |-> w,
              result |-> IF RetryMessageChosen(rc, cfg.retry2)
                         THEN Event("error", <<"Non-streaming summary failed, attempt #",
                                               NumTok(rc), ": AttributeError">>)
                         ELSE Event("error",
                                  <<"Non-streaming summary repeatedly failed: AttributeError">>)]
        ELSE IF Truthy(answer)
        THEN [called |-> TRUE, ctx |-> assistant_message,
              w |-> mark_phase_succeeded(w, "phase2_nonstream"),
              result |-> SummaryEvent(answer, FALSE)]
        ELSE [called |-> TRUE, ctx |-> assistant_message, w |-> w,
              result |-> IF RetryMessageChosen(rc, cfg.retry2)
                         THEN Event("error", Phase2BatchRetryMsg(rc))
                         ELSE Event("error", Phase2BatchFinalMsg)]

\* process(): the batch branch of phase 2, from the call to the yield
P2BatchCall ==
    /\ pc = "p2n_call"
    /\ \E answer \in Phase2BatchResults :
        LET r == Phase2Nonstream(wi, answer)
            w1 == mark_phase_executed(r.w, "phase2_nonstream")
        IN  /\ calls2' = IF r.called THEN calls2 + 1 ELSE calls2
            /\ ctx2' = IF r.called THEN Append(ctx2, r.ctx) ELSE ctx2
            /\ wi' = IF r.result.type # "error"
                     THEN mark_phase_succeeded(w1, "phase2_nonstream")
                     ELSE mark_phase_failed(w1, "phase2_nonstream", r.result.content)
            /\ events' = Append(events, r.result)
    /\ pc' = "finalize"
    /\ UNCHANGED <<cfg, runs, sdec, feed, emitted, calls1, cb_calls, p1, dec, p2>>

\* ------------------------------------------------------------- finalization
\* process(): the success argument it hands to _finalize_workflow
FinalizeSuccessArg(w) == w.success

\* _finalize_workflow: finalize, then the on_workflow_complete callback
Finalize ==
    /\ pc = "finalize"
    /\ LET success == FinalizeSuccessArg(wi)
           message == EmptyText
           w1 == finalize(wi, success, message)
       IN  /\ wi' = w1
           /\ cb_calls' =
                IF cfg.callback
                THEN Append(cb_calls,
                        [success |-> success,
                         message |-> IF Truthy(message) THEN message
                                     ELSE IF success THEN <<"Workflow successful">>
                                     ELSE <<"Workflow failed">>,
                         info |-> w1])
                ELSE cb_calls
    /\ pc' = "done"
    /\ UNCHANGED <<cfg, runs, sdec, feed, emitted, events, calls1, calls2, ctx2, p1, dec, p2>>

Next ==
    \/ Start
    \/ P1StreamCall
    \/ P1StreamFrame
    \/ P1StreamEnd
    \/ P1StreamRaise
    \/ P1BatchCall
    \/ P1BatchRaise
    \/ P2StreamCall
    \/ P2StreamChunk
    \/ P2StreamEnd
    \/ P2StreamRaise
    \/ P2BatchCall
    \/ Finalize

Spec == Init /\ [][Next]_vars

\* ------------------------------------------------------------- result aggregator
NoEvent == Event("", EmptyText)

AggregatorInit ==
    [accumulated_result |-> NoneVal, last_result |-> NoneVal,
     reasoning_content |-> EmptyText, summary_content |-> EmptyText,
     has_reasoning |-> FALSE, has_summary |-> FALSE, raised |-> FALSE]

\* a variant of CollectStep that keeps the first event and merges nothing
CollectStep_keep_first(a, result) ==
    [a EXCEPT !.last_result = Some(result),
              !.accumulated_result = IF IsNone(@) THEN Some(result) ELSE @]

\* a variant of CollectStep that keeps the latest event instead of merging
CollectStep_keep_latest(a, result) ==
    [a EXCEPT !.last_result = Some(result), !.accumulated_result = Some(result)]

\* _collect_async_generator_results, the body of `async for result` for one
\* event.  raised: `accumulated_result["content"] += result["content"]` met a
\* dict on either side (TypeError), which ends the loop in the except clause
CollectStep(a, result) ==
    LET a1 == [a EXCEPT !.last_result = Some(result)]
        a2 == IF result.type = "reasoning" /\ Truthy(result.content)
              THEN IF ~result.dict
                   THEN [a1 EXCEPT !.reasoning_content = @ \o result.content,
                                   !.has_reasoning = TRUE]
                   ELSE a1
              ELSE IF result.type = "summary" /\ Truthy(result.content)
              THEN [a1 EXCEPT !.summary_content = @ \o result.content,
                              !.has_summary = TRUE]
              ELSE a1
    IN  IF IsNone(a2.accumulated_result)
        THEN [a2 EXCEPT !.accumulated_result = Some(result)]
        ELSE LET acc == a2.accumulated_result[1]
             IN  IF acc.dict \/ result.dict
                 THEN [a2 EXCEPT !.raised = TRUE]
                 ELSE [a2 EXCEPT !.accumulated_result = Some(
                          [type |-> result.type,
                           content |-> acc.content \o result.content,
                           dict |-> FALSE,
                           phase |-> IF result.phase # "" THEN result.phase
                                     ELSE acc.phase,
                           reasoning_content |->
                               IF result.type = "phase1_complete"
                               THEN result.reasoning_content
                               ELSE acc.reasoning_content])]

RECURSIVE CollectLoop(_, _)
CollectLoop(a, evs) ==
    IF evs = <<>> \/ a.raised THEN a
    ELSE CollectLoop(CollectStep(a, Head(evs)), Tail(evs))

NoResultsMarker == <<"No results available">>

\* a variant of the final choice that never falls back to the reasoning text
collect_async_generator_results_no_reasoning(evs) ==
    [is_str |-> FALSE, text |-> EmptyText,
     event |-> IF evs = <<>> THEN NoEvent ELSE evs[Len(evs)]]

\* _collect_async_generator_results: a str ([is_str, text]) or an event dict
collect_async_generator_results(evs) ==
    LET a == CollectLoop(AggregatorInit, evs)
    IN  IF a.raised
        THEN [is_str |-> FALSE, text |-> EmptyText, event |-> a.last_result[1]]
        ELSE IF a.has_summary /\ Truthy(a.summary_content)
        THEN [is_str |-> TRUE, text |-> a.summary_content, event |-> NoEvent]
        ELSE IF a.has_reasoning /\ Truthy(a.reasoning_content)
        THEN [is_str |-> TRUE, text |-> a.reasoning_content, event |-> NoEvent]
        ELSE IF ~IsNone(a.accumulated_result)
        THEN [is_str |-> FALSE, text |-> EmptyText, event |-> a.accumulated_result[1]]
        ELSE IF ~IsNone(a.last_result)
        THEN [is_str |-> FALSE, text |-> EmptyText, event |-> a.last_result[1]]
        ELSE [is_str |-> TRUE, text |-> NoResultsMarker, event |-> NoEvent]

\* process_nonstream: the WorkflowResult built from the collected value
\* (every workflow event has a "content" key)
process_nonstream(evs) ==
    LET final_content == collect_async_generator_results(evs)
    IN  IF final_content.is_str
        THEN [content |-> final_content.text, content_is_dict |-> FALSE,
              error |-> NoneVal, status_code |-> 200]
        ELSE [content |-> final_content.event.content,
              content_is_dict |-> final_content.event.dict,
              error |-> NoneVal, status_code |-> 200]

\* ------------------------------------------------------------- properties
Phase1Name == IF cfg.p1 = "stream" THEN "phase1_stream" ELSE "phase1_nonstream"

Phase2Name == IF cfg.p2 = "stream" THEN "phase2_stream" ELSE "phase2_nonstream"

\* process() has left the phase-1 executor / the phase-2 executor
Phase1Over ==
    /\ cfg.p1 # "none"
    /\ pc \in {"p2s_call", "p2s_read", "p2n_call", "finalize", "done"}

Phase2Over == cfg.p2 # "none" /\ pc \in {"finalize", "done"}

Phase1Exhausted == Phase1Over /\ ~InSeq(Phase1Name, wi.phases_succeeded)

Phase2Exhausted == Phase2Over /\ ~InSeq(Phase2Name, wi.phases_succeeded)

EventIndices(P(_)) == {i \in 1..Len(events) : P(events[i])}

IsErrorEvent(e) == e.type = "error"

IsPhase2ErrorEvent(e) ==
    e.type = "error" /\ e.phase \in {"phase2", "phase2_stream", "phase2_nonstream"}

IsSummaryText(e) == e.type = "summary" /\ ~e.dict /\ Truthy(e.content)

IsReasoningText(e) == e.type = "reasoning" /\ Truthy(e.content)

\* the content of the events of one kind ("summary": the summary texts,
\* "all": every event), concatenated in emission order
RECURSIVE ConcatContent(_, _)
ConcatContent(evs, kind) ==
    IF evs = <<>> THEN EmptyText
    ELSE (IF kind = "all" \/ IsSummaryText(Head(evs))
          THEN Head(evs).content ELSE EmptyText)
         \o ConcatContent(Tail(evs), kind)

\* C1: the success flag stored by finalize, and the one handed to
\* on_workflow_complete, is true when phase 2 succeeded and false when phase 2
\* exhausted its attempts.
C1_FinalizeSuccessReflectsPhase2 ==
    wi.end_time = "stamped" =>
        /\ wi.success <=> InSeq(Phase2Name, wi.phases_succeeded)
        /\ \A i \in 1..Len(cb_calls) :
               cb_calls[i].success <=> InSeq(Phase2Name, wi.phases_succeeded)

\* C2: once an executor has given up on attempts that came back empty, it has
\* made retry_num + 1 backend calls and emitted one retry error event per
\* retry before the final error event.
C2_AttemptsAreRetryNumPlusOne ==
    /\ EventIndices(LAMBDA e : e = ErrorEvent(Phase1StreamFinalMsg, "phase1")) # {}
           => /\ calls1 = cfg.retry1 + 1
              /\ Cardinality(EventIndices(LAMBDA e :
                     \E n \in 1..(MaxRetry + 1) :
                         e = ErrorEvent(Phase1StreamRetryMsg(n), "phase1")))
                 = cfg.retry1
    /\ EventIndices(LAMBDA e : e = Event("error", Phase1BatchFinalMsg)) # {}
           => /\ calls1 = cfg.retry1 + 1
              /\ Cardinality(EventIndices(LAMBDA e :
                     \E n \in 1..(MaxRetry + 1) :
                         e = Event("error", Phase1BatchRetryMsg(n))))
                 = cfg.retry1
    /\ EventIndices(LAMBDA e :
           e = ErrorEvent(Phase2StreamFinalMsg, "phase2_stream")) # {}
           => /\ calls2 = cfg.retry2 + 1
              /\ Cardinality(EventIndices(LAMBDA e :
                     \E n \in 1..(MaxRetry + 1) :
                         e = ErrorEvent(Phase2StreamRetryMsg(n), "phase2_stream")))
                 = cfg.retry2

\* the first phase-2 streaming attempt has ended without any summary chunk
FirstSummaryAttemptEmpty ==
    /\ cfg.p2 = "stream"
    /\ \E i \in 1..Len(events) :
        /\ events[i].type = "summary_end"
        /\ \A j \in 1..(i - 1) : events[j].type # "summary"

\* C3: with retry_num = 1 and a first attempt that returned empty content, the
\* executor goes on to a second attempt after exactly one error event, the
\* phase being neither failed nor over; when that second attempt returns text
\* the phase is marked succeeded with that text, still after one error event.
C3_OneRetryThenSuccess ==
    (FirstSummaryAttemptEmpty /\ cfg.retry2 = 1) =>
        /\ Cardinality(EventIndices(IsPhase2ErrorEvent)) = 1
        /\ calls2 = 1 => /\ pc = "p2s_call"
                         /\ ~InSeq("phase2_stream", wi.phases_failed)
        /\ (calls2 = 2 /\ pc \in {"finalize", "done"}
                /\ EventIndices(IsSummaryText) # {})
               => /\ InSeq("phase2_stream", wi.phases_succeeded)
                  /\ p2.summary_content = ConcatContent(events, "summary")

\* C4: in every run whose configuration has phase-2 steps the phase-2 backend
\* call has been made by the time the run ends, whatever phase 1 did.
C4_Phase2CallAlwaysMade ==
    (pc = "done" /\ cfg.p2 # "none") => calls2 >= 1

\* C5: a phase that has used up its attempts without success has emitted an
\* error event and is a member of phases_failed.
C5_ExhaustedPhaseIsMarkedFailed ==
    /\ Phase1Exhausted => /\ EventIndices(IsErrorEvent) # {}
                          /\ InSeq(Phase1Name, wi.phases_failed)
    /\ Phase2Exhausted => /\ EventIndices(IsErrorEvent) # {}
                          /\ InSeq(Phase2Name, wi.phases_failed)

\* the assistant context the specification prescribes for phase 2
ExpectedAssistantContext ==
    IF Truthy(OrEmpty(wi.reasoning_content)) THEN OrEmpty(wi.reasoning_content)
    ELSE IF Truthy(OrEmpty(wi.content)) THEN OrEmpty(wi.content)
    ELSE EmptyText

\* C6: phase 2 is called, on the streaming and on the batch path alike, with
\* an assistant context equal to phase 1's reasoning if non-empty, else phase
\* 1's content if non-empty, else the empty string.
C6_AssistantContextSelection ==
    Phase2Over =>
        /\ Len(ctx2) >= 1
        /\ \A i \in 1..Len(ctx2) : ctx2[i] = ExpectedAssistantContext

\* C7: when streaming phase 1 fails after reasoning or content has arrived,
\* phase 2 is called with that partial text as assistant context.
C7_PartialReasoningReachesPhase2 ==
    (/\ cfg.p1 = "stream"
     /\ Phase1Exhausted
     /\ Len(ctx2) >= 1
     /\ Truthy(p1.reasoning_content) \/ Truthy(p1.content))
        => ctx2[1] = IF Truthy(p1.reasoning_content) THEN p1.reasoning_content
                     ELSE p1.content

Phase1AccumulatedReasoning ==
    IF cfg.p1 = "stream" THEN p1.reasoning_content
    ELSE OrEmpty(wi.reasoning_content)

\* C9: when phase 2 has used up its attempts without any summary text and
\* phase 1 produced non-empty reasoning, the non-streaming caller receives
\* phase 1's accumulated reasoning as content.
C9_ReasoningFallback ==
    (/\ pc = "done"
     /\ Phase2Exhausted
     /\ EventIndices(LAMBDA e : e.type = "summary" /\ Truthy(e.content)) = {}
     /\ Truthy(Phase1AccumulatedReasoning))
        => /\ ~process_nonstream(events).content_is_dict
           /\ process_nonstream(events).content = Phase1AccumulatedReasoning

\* C9 happens: a finished run whose phase 2 failed without summary text after
\* phase 1 gathered reasoning, answered with that reasoning
C9_Witness ==
    /\ pc = "done"
    /\ Phase2Exhausted
    /\ InSeq(Phase2Name, wi.phases_failed)
    /\ EventIndices(LAMBDA e : e.type = "summary" /\ Truthy(e.content)) = {}
    /\ Truthy(Phase1AccumulatedReasoning)
    /\ process_nonstream(events).content = Phase1AccumulatedReasoning

\* both phases used up their attempts, no reasoning text and no summary came
BothPhasesExhaustedEmpty ==
    /\ pc = "done"
    /\ Phase1Exhausted
    /\ Phase2Exhausted
    /\ EventIndices(IsReasoningText) = {}
    /\ EventIndices(LAMBDA e : e.type = "summary" /\ Truthy(e.content)) = {}

MaxAggEvents == 3

\* a fixed configuration for the specifications that exercise one component
IdleConfig ==
    [p1 |-> "none", p2 |-> "stream", retry1 |-> 0, retry2 |-> 0, callback |-> FALSE]

\* events a workflow run yields, as the aggregator may meet them
AggEvents ==
    { Event("reasoning", <<"R">>), Event("reasoning", EmptyText),
      Event("content", <<"C">>),
      Phase1CompleteEvent(EmptyText, EmptyText),
      Event("reasoning_end", EmptyText),
      SummaryEvent(<<"S">>, FALSE), SummaryEvent(ErrorDictText, TRUE),
      Event("summary_end", EmptyText),
      Event("error", <<"E1">>), ErrorEvent(<<"E2">>, "phase2_stream") }

\* the specification of _collect_async_generator_results on its own: the
\* generator yields one more event
AggInit ==
    /\ cfg = IdleConfig
    /\ pc = "agg"
    /\ wi = WorkflowInfoInit
    /\ events = <<>>
    /\ calls1 = 0
    /\ calls2 = 0
    /\ ctx2 = <<>>
    /\ cb_calls = <<>>
    /\ p1 = Phase1Init
    /\ dec = DecoderInit
    /\ p2 = Phase2Init
    /\ sdec = SDecoderInit
    /\ feed = <<>>
    /\ emitted = <<>>
    /\ runs = <<>>

AggYield ==
    /\ pc = "agg"
    /\ Len(events) < MaxAggEvents
    /\ \E e \in AggEvents : events' = Append(events, e)
    /\ UNCHANGED <<cfg, runs, sdec, feed, emitted, pc, wi, calls1, calls2, ctx2, cb_calls, p1, dec, p2>>

AggNext == AggYield

AggSpec == AggInit /\ [][AggNext]_vars

\* a non-empty sequence without summary content and without reasoning content
NeitherSummaryNorReasoning ==
    /\ events # <<>>
    /\ EventIndices(LAMBDA e : e.type = "summary" /\ Truthy(e.content)) = {}
    /\ EventIndices(IsReasoningText) = {}

MaxInfoPhases == 3

PhaseOrder ==
    <<"phase1_stream", "phase2_stream", "workflow", "phase1_nonstream",
      "phase2_nonstream">>

InfoPhases ==
    {PhaseOrder[i] : i \in 1..(IF MaxInfoPhases < 5 THEN MaxInfoPhases ELSE 5)}

\* the specification of a WorkflowInfo under any sequence of mark_phase_* calls
InfoInit ==
    /\ cfg = IdleConfig
    /\ pc = "info"
    /\ wi = WorkflowInfoInit
    /\ events = <<>>
    /\ calls1 = 0
    /\ calls2 = 0
    /\ ctx2 = <<>>
    /\ cb_calls = <<>>
    /\ p1 = Phase1Init
    /\ dec = DecoderInit
    /\ p2 = Phase2Init
    /\ sdec = SDecoderInit
    /\ feed = <<>>
    /\ emitted = <<>>
    /\ runs = <<>>

InfoMarkExecuted ==
    /\ pc = "info"
    /\ \E phase \in InfoPhases : wi' = mark_phase_executed(wi, phase)
    /\ UNCHANGED <<cfg, runs, sdec, feed, emitted, pc, events, calls1, calls2, ctx2, cb_calls, p1, dec, p2>>

InfoMarkSucceeded ==
    /\ pc = "info"
    /\ \E phase \in InfoPhases : wi' = mark_phase_succeeded(wi, phase)
    /\ UNCHANGED <<cfg, runs, sdec, feed, emitted, pc, events, calls1, calls2, ctx2, cb_calls, p1, dec, p2>>

InfoMarkFailed ==
    /\ pc = "info"
    /\ \E phase \in InfoPhases, error_msg \in {EmptyText, <<"E">>} :
           wi' = mark_phase_failed(wi, phase, error_msg)
    /\ UNCHANGED <<cfg, runs, sdec, feed, emitted, pc, events, calls1, calls2, ctx2, cb_calls, p1, dec, p2>>

InfoNext == InfoMarkExecuted \/ InfoMarkSucceeded \/ InfoMarkFailed

InfoSpec == InfoInit /\ [][InfoNext]_vars

\* C12: whatever mark_phase_executed / mark_phase_succeeded / mark_phase_failed
\* calls were made, no phase name is a member of both phases_succeeded and
\* phases_failed.
C12_SucceededFailedDisjoint ==
    \A phase \in PhaseNames :
        ~(InSeq(phase, wi.phases_succeeded) /\ InSeq(phase, wi.phases_failed))

\* C12 happens: a phase marked failed (its error is recorded) and succeeded
\* afterwards, while another phase went the other way
C12_Witness ==
    /\ pc = "info"
    /\ \E phase \in PhaseNames :
        /\ InSeq(phase, wi.phases_succeeded)
        /\ ~IsNone(wi.errors[phase])
        /\ ~InSeq(phase, wi.phases_failed)
    /\ Len(wi.phases_failed) >= 1

\* ------------------------------------------------------------- whole runs
\* C13: when the phase-2 step list is empty or missing the run makes no
\* backend call, neither phase 1 nor phase 2, performs no retry, and ends with
\* a single error event.
C13_MissingPhase2IsFatal ==
    cfg.p2 = "none" =>
        /\ calls1 = 0 /\ calls2 = 0
        /\ p1.retry_count = 0 /\ p2.retry_count = 0
        /\ pc \in {"start", "done"}
        /\ pc = "start" => events = <<>>
        /\ pc = "done" => /\ Len(events) = 1
                          /\ events[1].type = "error"

\* C13 happens: a run with phase-1 steps but no phase-2 steps has ended
C13_Witness ==
    /\ cfg.p2 = "none"
    /\ cfg.p1 # "none"
    /\ pc = "done"
    /\ Len(events) = 1
    /\ calls1 = 0

\* C14: every run that has ended was finalized exactly once, the runs cut
\* short by an exception included: end_time is stamped, success is false on
\* the exception path, and a registered on_workflow_complete callback has been
\* invoked exactly once.
C14_FinalizedExactlyOnce ==
    pc = "done" =>
        /\ wi.end_time = "stamped"
        /\ InSeq("workflow", wi.phases_failed) => ~wi.success
        /\ Len(cb_calls) = IF cfg.callback THEN 1 ELSE 0

\* ------------------------------------------------------------- summarization decoder alone
\* most lines of one summarization response
MaxSFrames == 3
\* most symbols one read of the response delivers
MaxReadLen == 5

\* the symbols that can follow the bytes s of a response made of blank lines
\* and "data: <json or [DONE]>" lines
NextSymbols(s) ==
    IF s = <<>> \/ s[Len(s)] = NL
    THEN IF Cardinality({i \in 1..Len(s) : s[i] = NL}) < MaxSFrames
         THEN {DataPrefix, NL} ELSE {}
    ELSE IF s[Len(s)] = DataPrefix THEN JsonBodies \cup {DoneWord}
    ELSE {NL}

\* the reads of at most n symbols that can follow s (the empty one included)
RECURSIVE Extensions(_, _)
Extensions(s, n) ==
    IF n = 0 THEN {<<>>}
    ELSE {<<>>} \cup UNION { { <<x>> \o r : r \in Extensions(Append(s, x), n - 1) } :
                             x \in NextSymbols(s) }

SDecInit ==
    /\ cfg = IdleConfig
    /\ pc = "sdec"
    /\ wi = WorkflowInfoInit
    /\ events = <<>>
    /\ calls1 = 0
    /\ calls2 = 0
    /\ ctx2 = <<>>
    /\ cb_calls = <<>>
    /\ p1 = Phase1Init
    /\ dec = DecoderInit
    /\ p2 = Phase2Init
    /\ sdec = SDecoderInit
    /\ feed = <<>>
    /\ emitted = <<>>
    /\ runs = <<>>

\* response.content delivers one more read
SDecRead ==
    /\ pc = "sdec"
    /\ \E read \in Extensions(feed, MaxReadLen) \ {<<>>} :
        LET r == SDecodeRead(sdec, read)
        IN  /\ sdec' = r.d
            /\ emitted' = emitted \o r.out
            /\ feed' = feed \o read
    /\ UNCHANGED <<cfg, runs, pc, wi, events, calls1, calls2, ctx2, cb_calls, p1, dec, p2>>

\* response.content is exhausted: the remaining buffer is decoded
SDecEof ==
    /\ pc = "sdec"
    /\ pc' = "sdec_eof"
    /\ emitted' = emitted \o SDecodeRemaining(sdec)
    /\ UNCHANGED <<cfg, runs, wi, events, calls1, calls2, ctx2, cb_calls, p1, dec, p2, sdec,
                   feed>>

SDecNext == SDecRead \/ SDecEof

SDecSpec == SDecInit /\ [][SDecNext]_vars

\* C15: however the bytes of a response were cut into reads, the texts the
\* decoder has yielded at the end of the response are those it yields when
\* every frame arrives in a read of its own, frames after a finish_reason or
\* [DONE] frame included.
C15_ReadBoundariesDoNotMatter ==
    pc = "sdec_eof" => emitted = SDecodeAll(SDecoderInit, ReadsByFrame(feed))

\* a whole line that ends decoding: data: [DONE], or finish_reason stop / length
IsEndLine(line) ==
    \/ StripNL(line) = <<DataPrefix, DoneWord>>
    \/ /\ Len(StripNL(line)) = 2
       /\ StripNL(line)[2].finish \in {"stop", "length"}

\* the content of the whole lines up to and including the first end line
RECURSIVE TextsUntilEnd(_)
TextsUntilEnd(lines) ==
    IF lines = <<>> THEN <<>>
    ELSE LET line == StripNL(Head(lines))
             text == IF Len(line) = 2 /\ Truthy(line[2].content)
                     THEN <<line[2].content>> ELSE <<>>
         IN  IF IsEndLine(Head(lines)) THEN text
             ELSE text \o TextsUntilEnd(Tail(lines))

\* the response read so far holds a whole end line
EndLineRead ==
    \E i \in 1..Len(ReadsByFrame(feed)) :
        /\ IsEndLine(ReadsByFrame(feed)[i])
        /\ ReadsByFrame(feed)[i][Len(ReadsByFrame(feed)[i])] = NL

\* C16: once the decoder has processed a data: [DONE] frame or a frame with
\* finish_reason stop or length, it yields nothing for the frames that
\* follow: what it has yielded is the content up to that frame.
C16_NothingAfterEndOfStream ==
    EndLineRead => emitted = TextsUntilEnd(ReadsByFrame(feed))

\* ------------------------------------------------------------- reasoning decoder alone
\* most lines of one reasoning response
MaxDecLines == 3

RDecInit ==
    /\ cfg = IdleConfig
    /\ pc = "rdec"
    /\ wi = WorkflowInfoInit
    /\ events = <<>>
    /\ calls1 = 0
    /\ calls2 = 0
    /\ ctx2 = <<>>
    /\ cb_calls = <<>>
    /\ p1 = Phase1Init
    /\ dec = DecoderInit
    /\ p2 = Phase2Init
    /\ sdec = SDecoderInit
    /\ feed = <<>>
    /\ emitted = <<>>
    /\ runs = <<>>

\* response.content delivers one more line
RDecLine ==
    /\ pc = "rdec"
    /\ Len(feed) < MaxDecLines
    /\ \E f \in StreamFrames :
        LET r == DecodeFrame(dec, f)
        IN  /\ dec' = r.d
            /\ emitted' = emitted \o r.out
            /\ feed' = Append(feed, f)
    /\ UNCHANGED <<cfg, runs, pc, wi, events, calls1, calls2, ctx2, cb_calls, p1, p2, sdec>>

RDecNext == RDecLine

RDecSpec == RDecInit /\ [][RDecNext]_vars

\* the text of the chunks of the given types, in emission order
RECURSIVE ChunkText(_, _)
ChunkText(chunks, types) ==
    IF chunks = <<>> THEN EmptyText
    ELSE (IF Head(chunks).type \in types THEN Head(chunks).content ELSE EmptyText)
         \o ChunkText(Tail(chunks), types)

\* the deltas of the frames, in stream order
RECURSIVE SourceDeltas(_)
SourceDeltas(frames) ==
    IF frames = <<>> THEN EmptyText
    ELSE Head(frames).rc \o Head(frames).c \o SourceDeltas(Tail(frames))

RECURSIVE ReasoningDeltas(_, _)
ReasoningDeltas(frames, seen) ==
    IF frames = <<>> THEN EmptyText
    ELSE LET f == Head(frames)
             first == ~seen /\ ~Truthy(f.rc)
         IN  f.rc \o (IF first THEN f.c ELSE EmptyText)
                  \o ReasoningDeltas(Tail(frames),
                                     seen \/ Truthy(f.rc) \/ Truthy(f.c))

\* the content delta that no text came before, if there is one
RECURSIVE FirstContentDelta(_)
FirstContentDelta(frames) ==
    IF frames = <<>> THEN EmptyText
    ELSE IF Truthy(Head(frames).rc) THEN EmptyText
    ELSE IF Truthy(Head(frames).c) THEN Head(frames).c
    ELSE FirstContentDelta(Tail(frames))

TextSeenWithin(n) ==
    \E j \in 1..n : Truthy(feed[j].rc) \/ Truthy(feed[j].c)

\* the last line read signals completion: a reasoning_content delta that is
\* empty after reasoning was seen, or finish_reason "stop"
LastLineSignalsCompletion ==
    /\ feed # <<>>
    /\ feed[Len(feed)].kind = "data"
    /\ \/ feed[Len(feed)].fin
       \/ /\ feed[Len(feed)].has_rc
          /\ ~Truthy(feed[Len(feed)].rc)
          /\ TextSeenWithin(Len(feed) - 1)

\* the two-frame stream of the specification's scenario: a reasoning delta,
\* then an empty reasoning delta with finish_reason "stop"
LetsThinkStream ==
    << [kind |-> "data", has_rc |-> TRUE, rc |-> <<"R">>, has_c |-> FALSE,
        c |-> EmptyText, fin |-> FALSE],
       [kind |-> "data", has_rc |-> TRUE, rc |-> EmptyText, has_c |-> FALSE,
        c |-> EmptyText, fin |-> TRUE] >>

\* C18: when the line just read signals completion, the decoder's last two
\* chunks are phase1_complete, carrying the reasoning and the content
\* accumulated so far, and reasoning_end; for the two-frame stream (reasoning
\* text, then empty reasoning with finish_reason stop) it has emitted the
\* reasoning chunk, phase1_complete with that reasoning and empty content, and
\* reasoning_end.
C18_CompletionEmitsPhase1Complete ==
    /\ (pc = "rdec" /\ LastLineSignalsCompletion) =>
        /\ Len(emitted) >= 2
        /\ emitted[Len(emitted) - 1] =
               Phase1CompleteEvent(ChunkText(emitted, {"reasoning"}),
                                   ChunkText(emitted, {"content"}))
        /\ emitted[Len(emitted)] = Event("reasoning_end", EmptyText)
    /\ (pc = "rdec" /\ feed = LetsThinkStream) =>
        emitted = << Event("reasoning", <<"R">>),
                     Phase1CompleteEvent(<<"R">>, EmptyText),
                     Event("reasoning_end", EmptyText) >>

\* C18 happens: the two-frame stream was decoded
C18_Witness ==
    /\ pc = "rdec"
    /\ feed = LetsThinkStream
    /\ LastLineSignalsCompletion
    /\ Len(emitted) = 3
    /\ emitted[2].type = "phase1_complete"

\* C19: in the events of a run no reasoning event follows a phase1_complete
\* event, and no summary event follows a summary_end event of the same
\* phase-2 attempt (a later attempt starts after the error event that
\* announces the retry).
C19_EventsInCausalOrder ==
    \A i \in 1..Len(events) : \A j \in (i + 1)..Len(events) :
        /\ events[i].type = "phase1_complete" => events[j].type # "reasoning"
        /\ (events[i].type = "summary_end" /\ events[j].type = "summary")
               => \E k \in (i + 1)..(j - 1) : IsPhase2ErrorEvent(events[k])

\* C19 happens: a finished run with reasoning before phase1_complete and
\* summary text before summary_end
C19_Witness ==
    /\ pc = "done"
    /\ \E i, j, k, m \in 1..Len(events) :
        /\ i < j /\ j < k /\ k < m
        /\ events[i].type = "reasoning"
        /\ events[j].type = "phase1_complete"
        /\ events[k].type = "summary"
        /\ events[m].type = "summary_end"

\* process() is in, or past, the phase-2 executor
Phase2Begun == pc \in {"p2s_call", "p2s_read", "p2n_call", "finalize", "done"}

\* a response of the phase-1 backend / of the phase-2 backend is being read
Phase1InFlight == pc = "p1s_read"

Phase2InFlight == pc = "p2s_read"

\* the events of phase 1 among the first n events
Phase1Events(evs) ==
    {i \in 1..Len(evs) :
        \/ evs[i].type \in {"reasoning", "content", "phase1_complete", "reasoning_end"}
        \/ evs[i].type = "error" /\ evs[i].phase = "phase1"}

\* C20: at most one backend call is in flight at any time, and once phase 2
\* has begun there is no further phase-1 backend call or read and no further
\* phase-1 event: phase 1 has returned before phase 2 begins.
C20_PhasesNeverOverlap ==
    /\ [](~(Phase1InFlight /\ Phase2InFlight))
    /\ [](calls2 >= 1 => Phase2Begun)
    /\ [][Phase2Begun =>
            /\ Phase2Begun'
            /\ calls1' = calls1
            /\ p1' = p1
            /\ dec' = dec
            /\ Phase1Events(events') = Phase1Events(events)]_vars

\* C20 happens: a finished run that read a phase-1 response and then a
\* phase-2 response
C20_Witness ==
    /\ pc = "done"
    /\ calls1 >= 1
    /\ calls2 >= 1
    /\ Phase1Events(events) # {}
    /\ \E i \in 1..Len(events) : events[i].type = "summary"

\* ------------------------------------------------------------- concurrent runs
\* process() calls followed side by side on one DeepSeekXWorkflow instance
MaxRuns == 2

RunIds == 1..MaxRuns

\* what the reasoning backend answers to run r
RunReasoning(r) == <<"R", NumTok(r)>>

RunContent(r) == <<"C", NumTok(r)>>

DuoConfig ==
    [p1 |-> "nonstream", p2 |-> "stream", retry1 |-> 0, retry2 |-> 0, callback |-> FALSE]

\* a variant in which the WorkflowInfo is kept on the workflow instance, one
\* for all its runs
OwnWorkflowInfo_on_instance(r) == 1

\* process(): `workflow_info = WorkflowInfo()` is a local of the call, and
\* __init__ builds a new dict: run r works on an object of its own
OwnWorkflowInfo(r) == r

DuoInit ==
    /\ cfg = DuoConfig
    /\ pc = "duo"
    /\ wi = WorkflowInfoInit
    /\ events = <<>>
    /\ calls1 = 0
    /\ calls2 = 0
    /\ ctx2 = <<>>
    /\ cb_calls = <<>>
    /\ p1 = Phase1Init
    /\ dec = DecoderInit
    /\ p2 = Phase2Init
    /\ sdec = SDecoderInit
    /\ feed = <<>>
    /\ emitted = <<>>
    /\ runs = [pc   |-> [r \in RunIds |-> "start"],
               info |-> [r \in RunIds |-> WorkflowInfoInit],
               ctx  |-> [r \in RunIds |-> <<>>]]

DuoUnchanged ==
    UNCHANGED <<cfg, pc, wi, events, calls1, calls2, ctx2, cb_calls, p1, dec, p2, sdec,
                feed, emitted>>

\* run r enters process(): its WorkflowInfo is constructed
DuoStart(r) ==
    /\ runs.pc[r] = "start"
    /\ runs' = [runs EXCEPT !.pc[r] = "phase1",
                            !.info[OwnWorkflowInfo(r)] = WorkflowInfoInit]
    /\ DuoUnchanged

\* run r resumes from its phase-1 batch call
DuoPhase1(r) ==
    /\ runs.pc[r] = "phase1"
    /\ \E result \in { [reasoning |-> RunReasoning(r), content |-> RunContent(r)],
                       [reasoning |-> RunReasoning(r), content |-> EmptyText],
                       [reasoning |-> EmptyText, content |-> EmptyText] } :
        LET w  == runs.info[OwnWorkflowInfo(r)]
            w1 == set_reasoning_method(
                      update_reasoning(w, result.reasoning, "nonstream"), "nonstream")
            w2 == IF Truthy(result.content) THEN set_content(w1, result.content)
                  ELSE w1
        IN  runs' = [runs EXCEPT
                !.pc[r] = "phase2",
                !.info[OwnWorkflowInfo(r)] =
                    IF Truthy(result.reasoning)
                    THEN mark_phase_succeeded(
                             mark_phase_executed(w2, "phase1_nonstream"),
                             "phase1_nonstream")
                    ELSE w]
    /\ DuoUnchanged

\* run r builds its phase-2 context and suspends in stream_chat
DuoPhase2Call(r) ==
    /\ runs.pc[r] = "phase2"
    /\ runs' = [runs EXCEPT
            !.pc[r] = "phase2_read",
            !.ctx[r] = Append(@, Phase2StreamContext(runs.info[OwnWorkflowInfo(r)]))]
    /\ DuoUnchanged

\* run r resumes at the end of its phase-2 response
DuoPhase2End(r) ==
    /\ runs.pc[r] = "phase2_read"
    /\ \E summary_success \in BOOLEAN :
        LET w == runs.info[OwnWorkflowInfo(r)]
        IN  runs' = [runs EXCEPT
                !.pc[r] = "finalize",
                !.info[OwnWorkflowInfo(r)] =
                    IF summary_success
                    THEN mark_phase_succeeded(w, "phase2_stream")
                    ELSE mark_phase_failed(w, "phase2_stream", Phase2StreamFinalMsg)]
    /\ DuoUnchanged

\* run r finalizes
DuoFinalize(r) ==
    /\ runs.pc[r] = "finalize"
    /\ LET w == runs.info[OwnWorkflowInfo(r)]
       IN  runs' = [runs EXCEPT
               !.pc[r] = "done",
               !.info[OwnWorkflowInfo(r)] = finalize(w, FinalizeSuccessArg(w), EmptyText)]
    /\ DuoUnchanged

DuoNext ==
    \E r \in RunIds :
        \/ DuoStart(r)
        \/ DuoPhase1(r)
        \/ DuoPhase2Call(r)
        \/ DuoPhase2End(r)
        \/ DuoFinalize(r)

DuoSpec == DuoInit /\ [][DuoNext]_vars

\* the WorkflowInfo run r reads and writes
ObservedInfo(r) == runs.info[OwnWorkflowInfo(r)]

\* C21: of two runs of one workflow instance interleaved at their suspension
\* points, a step of one run (its mark_phase_*, update_reasoning, set_content
\* or finalize) leaves the WorkflowInfo the other run observes as it was, and
\* no phase-2 context of a run holds text the backend answered to the other.
C21_RunsOwnTheirWorkflowInfo ==
    /\ [][\A r, s \in RunIds :
            (r # s /\ runs'.pc[r] # runs.pc[r]) => ObservedInfo(s)' = ObservedInfo(s)]_vars
    /\ [](\A r, s \in RunIds : r # s =>
            \A i \in 1..Len(runs.ctx[r]) : ~InSeq(NumTok(s), runs.ctx[r][i]))

\* both runs are suspended in their phase-2 call, each with its own reasoning
\* as context
C21_Witness ==
    /\ pc = "duo"
    /\ \A r \in RunIds :
        /\ runs.pc[r] = "phase2_read"
        /\ runs.ctx[r] = <<RunReasoning(r)>>
        /\ ObservedInfo(r).reasoning_content = Some(RunReasoning(r))

\* ------------------------------------------------------------- SSE translator
\* One frame of the streaming response: a `data: {json}` line with
\* choices[0].delta.reasoning_content, choices[0].delta.content and
\* choices[0].finish_reason ("" for null), or the literal `data: [DONE]`.
SseChunk(reasoning_content, content, finish_reason) ==
    [done |-> FALSE, reasoning_content |-> reasoning_content, content |-> content,
     finish_reason |-> finish_reason]

SseDone ==
    [done |-> TRUE, reasoning_content |-> EmptyText, content |-> EmptyText,
     finish_reason |-> ""]

FriendlyError ==
    <<"Encountered some issues while processing the request, trying alternative methods...">>

\* str(e) of the TypeError that `final_content += content` raises for a dict
ChunkTypeErrorText ==
    <<"Error processing stream chunk: can only concatenate str (not \"dict\") to str">>

\* _handle_stream_request: the state variables of the response generator
TranslatorInit ==
    [reasoning_started |-> FALSE, summary_started |-> FALSE,
     reasoning_content |-> EmptyText, final_content |-> EmptyText]

\* error_phase.startswith("phase1") and "switching" in error_content.lower()
IsSwitchingPhase1Error(chunk) ==
    /\ chunk.phase \in {"phase1", "phase1_stream", "phase1_nonstream"}
    /\ InSeq("switching", chunk.content)

\* generate_stream_response, the body of `async for chunk` for one workflow
\* event: [t: the next state variables, out: the frames yielded]
TranslateChunk(t, chunk) ==
    IF chunk.type = "reasoning" THEN
        [t |-> [t EXCEPT !.reasoning_content = @ \o chunk.content,
                         !.reasoning_started = TRUE],
         out |-> <<SseChunk(chunk.content, EmptyText, "")>>]
    ELSE IF chunk.type = "reasoning_end" THEN
        IF t.reasoning_started
        THEN [t |-> [t EXCEPT !.reasoning_started = FALSE],
              out |-> <<SseChunk(<<"\n">>, EmptyText, "")>>]
        ELSE [t |-> t, out |-> <<>>]
    ELSE IF chunk.type = "summary" THEN
        LET o1 == IF t.summary_started THEN <<>>
                  ELSE <<SseChunk(EmptyText, <<"Final answer:\n">>, "")>>
            t1 == [t EXCEPT !.summary_started = TRUE]
        IN  IF chunk.dict
            THEN [t |-> t1,
                  out |-> o1 \o <<SseChunk(EmptyText, ChunkTypeErrorText, "error"),
                                  SseDone>>]
            ELSE [t |-> [t1 EXCEPT !.final_content = @ \o chunk.content],
                  out |-> o1 \o <<SseChunk(EmptyText, chunk.content, "")>>]
    ELSE IF chunk.type = "summary_end" THEN
        [t |-> [t EXCEPT !.summary_started = FALSE],
         out |-> <<SseChunk(EmptyText, EmptyText, "stop"), SseDone>>]
    ELSE IF chunk.type = "error" THEN
        IF IsSwitchingPhase1Error(chunk)
        THEN IF t.reasoning_started
             THEN [t |-> [t EXCEPT !.reasoning_started = FALSE],
                   out |-> <<SseChunk(EmptyText, <<"Switching processing method...\n">>,
                                      "")>>]
             ELSE [t |-> t, out |-> <<>>]
        ELSE [t |-> t, out |-> <<SseChunk(EmptyText, FriendlyError, "")>>]
    ELSE IF chunk.type = "workflow_complete" THEN
        [t |-> [t EXCEPT !.reasoning_started = FALSE, !.summary_started = FALSE],
         out |-> <<SseChunk(EmptyText, EmptyText, "stop"), SseDone>>]
    ELSE [t |-> t, out |-> <<>>]

RECURSIVE TranslateAll(_, _)
TranslateAll(t, evs) ==
    IF evs = <<>> THEN <<>>
    ELSE LET r == TranslateChunk(t, Head(evs))
         IN  r.out \o TranslateAll(r.t, Tail(evs))

\* generate_stream_response: the frames of the response to a workflow run
\* that yielded evs
generate_stream_response(evs) == TranslateAll(TranslatorInit, evs)

DoneFrames(frames) == {i \in 1..Len(frames) : frames[i].done}

\* C22: whatever event sequence a finished workflow run yielded (phase 2
\* streaming or batch, succeeded or failed), the frames of the streaming
\* response hold exactly one `data: [DONE]` and it is the last frame.
C22_ExactlyOneDoneFrameLast ==
    pc = "done" =>
        LET frames == generate_stream_response(events)
        IN  /\ Cardinality(DoneFrames(frames)) = 1
            /\ frames[Len(frames)] = SseDone

\* a text holds a message that a backend returned or the transport raised:
\* str(e) of an exception, or the transport's error dict
CarriesBackendErrorText(t) ==
    \E i \in 1..Len(t) :
        \/ t[i] = ErrorDictText[1]
        \/ \E e \in ExcKinds : t[i] = ExcText(e)[1]

\* C23: the output of a finished run does not depend on the error message a
\* backend returned or the transport raised: that message is copied neither
\* into the content returned to the non-streaming caller nor into a frame
\* sent to the streaming caller (two runs differing only in the message
\* give the same output).
C23_BackendErrorTextNeverVisible ==
    pc = "done" =>
        /\ ~CarriesBackendErrorText(process_nonstream(events).content)
        /\ LET frames == generate_stream_response(events)
           IN  \A i \in 1..Len(frames) :
                   /\ ~CarriesBackendErrorText(frames[i].content)
                   /\ ~CarriesBackendErrorText(frames[i].reasoning_content)

\* the half of C23 about the streaming caller, on its own
C23_FramesCarryNoBackendErrorText ==
    pc = "done" =>
        LET frames == generate_stream_response(events)
        IN  \A i \in 1..Len(frames) :
                /\ ~CarriesBackendErrorText(frames[i].content)
                /\ ~CarriesBackendErrorText(frames[i].reasoning_content)

\* ------------------------------------------------------------- request failures
\* most phase-1 attempts set against one another
MaxFaultRuns == 2

\* how a streaming request to the reasoning backend can fail before any line
\* is read: the backend answers with an HTTP error, the connection fails, the
\* request times out, or the response is empty
RequestFailures == {"http_401", "http_403", "connection_refused", "timeout", "empty"}

IsAuthFailure(cause) == cause \in {"http_401", "http_403"}

\* BaseClient._handle_api_error / _make_request_stream: the message put into
\* the {"error": ...} dict (the exception _handle_api_error raises is caught
\* by `except Exception` of _make_request_stream)
RequestErrorText(cause) ==
    IF cause = "http_401"
    THEN <<"Request error: ", "Authentication failed: API key invalid or expired">>
    ELSE IF cause = "http_403"
    THEN <<"Request error: ", "DeepSeek API error (HTTP 403): ", "Forbidden">>
    ELSE IF cause = "connection_refused"
    THEN <<"Connection error: ", "Connection refused">>
    ELSE IF cause = "timeout" THEN <<"Request timeout: ", "180.00s">>
    ELSE EmptyText

\* the dict _make_request_stream yields for a failed request: as every
\* {"error": ...} dict it has no "type" and no "content" key
TransportFailureChunk(cause) ==
    [type |-> TransportErrorChunk.type, content |-> TransportErrorChunk.content,
     dict |-> FALSE, phase |-> TransportErrorChunk.phase,
     reasoning_content |-> TransportErrorChunk.reasoning_content,
     error |-> RequestErrorText(cause)]

\* the chunks stream_chat yields when the request fails with `cause`
FailedStreamChunks(cause) ==
    IF cause = "empty" THEN <<>> ELSE <<TransportFailureChunk(cause)>>

\* _process_phase1_stream: its first attempt on a request that fails with
\* `cause`: [events: what it yields, next: where it goes on, w: WorkflowInfo]
Phase1StreamFailedAttempt(cause) ==
    LET h == HandlePhase1Chunks(
                 [l |-> Phase1Init, w |-> WorkflowInfoInit, out |-> <<>>, brk |-> FALSE],
                 FailedStreamChunks(cause))
        a == Phase1StreamAfterFor(h.l)
    IN  [cause |-> cause, events |-> h.out \o a.out, next |-> a.next, w |-> h.w]

FaultInit ==
    /\ cfg \in {c \in Configs : c.p1 = "stream"}
    /\ pc = "fault"
    /\ wi = WorkflowInfoInit
    /\ events = <<>>
    /\ calls1 = 0
    /\ calls2 = 0
    /\ ctx2 = <<>>
    /\ cb_calls = <<>>
    /\ p1 = Phase1Init
    /\ dec = DecoderInit
    /\ p2 = Phase2Init
    /\ sdec = SDecoderInit
    /\ feed = <<>>
    /\ emitted = <<>>
    /\ runs = <<>>

\* one more run of the phase-1 executor, its request failing in some way
FaultRun ==
    /\ pc = "fault"
    /\ Len(runs) < MaxFaultRuns
    /\ \E cause \in RequestFailures :
           runs' = Append(runs, Phase1StreamFailedAttempt(cause))
    /\ UNCHANGED <<cfg, pc, wi, events, calls1, calls2, ctx2, cb_calls, p1, dec, p2, sdec,
                   feed, emitted>>

FaultNext == FaultRun

FaultSpec == FaultInit /\ [][FaultNext]_vars

\* C24: when the backend answers the phase's call with HTTP 401 or 403 the
\* phase makes no further attempt, and the events it yields differ from the
\* events it yields for every failure that is not an authentication failure
\* (connection refused, timeout, empty response).
C24_AuthFailureIsDistinguishable ==
    \A i, j \in 1..Len(runs) :
        IsAuthFailure(runs[i].cause) =>
            /\ runs[i].next # "p1s_call"
            /\ (~IsAuthFailure(runs[j].cause) => runs[i].events # runs[j].events)

\* the half of C24 about further attempts, on its own
C24_AuthFailureIsNotRetried ==
    \A i \in 1..Len(runs) : IsAuthFailure(runs[i].cause) => runs[i].next # "p1s_call"

\* ------------------------------------------------------------- transport failure
\* the streaming phase-2 executor is over and its request failed in the
\* transport: the {"error": ...} dict came as a chunk and its str() is part
\* of what the executor accumulated
Phase2TransportFailed ==
    /\ cfg.p2 = "stream"
    /\ Phase2Over
    /\ \E i \in 1..Len(p2.summary_content) : p2.summary_content[i] = ErrorDictText[1]

\* C25: when the transport fails on the last attempt a phase is permitted
\* (retry_num 0: the only attempt), the run has an error event carrying that
\* phase's tag, no summary or reasoning event was yielded for the failure, and
\* the phase is not marked succeeded.
C25_TransportFailureIsATaggedError ==
    (cfg.retry2 = 0 /\ Phase2TransportFailed) =>
        /\ \E i \in 1..Len(events) :
               events[i].type = "error" /\ events[i].phase = "phase2_stream"
        /\ \A i \in 1..Len(events) :
               events[i].type \in {"summary", "reasoning"} => ~events[i].dict
        /\ ~InSeq("phase2_stream", wi.phases_succeeded)

\* ------------------------------------------------------------- idempotence
NoDuplicates(s) == \A i, j \in 1..Len(s) : s[i] = s[j] => i = j

\* C26: from every state a WorkflowInfo reaches through its mark_phase_*
\* calls, applying mark_phase_executed, mark_phase_succeeded or
\* mark_phase_failed twice in a row with the same arguments gives the state
\* that applying it once gives; phases_executed, phases_succeeded and
\* phases_failed hold no entry twice; marking a phase succeeded takes it out
\* of phases_failed, and marking it failed takes it out of phases_succeeded.
C26_MarkingIsIdempotent ==
    /\ NoDuplicates(wi.phases_executed)
    /\ NoDuplicates(wi.phases_succeeded)
    /\ NoDuplicates(wi.phases_failed)
    /\ \A phase \in InfoPhases :
        /\ mark_phase_executed(mark_phase_executed(wi, phase), phase)
               = mark_phase_executed(wi, phase)
        /\ mark_phase_succeeded(mark_phase_succeeded(wi, phase), phase)
               = mark_phase_succeeded(wi, phase)
        /\ ~InSeq(phase, mark_phase_succeeded(wi, phase).phases_failed)
        /\ InSeq(phase, mark_phase_succeeded(wi, phase).phases_succeeded)
        /\ \A error_msg \in {EmptyText, <<"E">>} :
            /\ mark_phase_failed(mark_phase_failed(wi, phase, error_msg), phase, error_msg)
                   = mark_phase_failed(wi, phase, error_msg)
            /\ ~InSeq(phase, mark_phase_failed(wi, phase, error_msg).phases_succeeded)
            /\ InSeq(phase, mark_phase_failed(wi, phase, error_msg).phases_failed)

\* C26 happens: a WorkflowInfo in which one phase is marked failed and another
\* succeeded, so that marking either the other way moves it between the lists
C26_Witness ==
    /\ pc = "info"
    /\ \E a, b \in InfoPhases :
        /\ a # b
        /\ InSeq(a, wi.phases_failed) /\ InSeq(b, wi.phases_succeeded)
        /\ mark_phase_succeeded(wi, a) # wi
        /\ mark_phase_failed(wi, b, EmptyText) # wi
        /\ Len(wi.phases_executed) >= 2

\* ------------------------------------------------------------- batch phases
\* C27: a phase whose first step has stream=false makes one batch call per
\* attempt and is marked succeeded exactly when the call's result carried
\* non-empty content (for phase 1: or non-empty reasoning), which the events
\* then show: a reasoning event for phase 1, a summary event with the
\* returned content for phase 2.
C27_BatchPhaseCallsOncePerAttempt ==
    /\ (cfg.p1 = "nonstream" /\ cfg.p2 # "none" /\ Phase1Over) =>
        /\ calls1 >= 1
        /\ InSeq("phase1_nonstream", wi.phases_succeeded)
               <=> (\E i \in 1..Len(events) : IsReasoningText(events[i]))
    /\ (cfg.p2 = "nonstream" /\ Phase2Over) =>
        /\ calls2 = 1
        /\ InSeq("phase2_nonstream", wi.phases_succeeded)
               <=> IsSummaryText(events[Len(events)])

\* the part of C27 about phase 1, on its own
C27_BatchPhase1SucceedsOnContent ==
    (cfg.p1 = "nonstream" /\ cfg.p2 # "none" /\ Phase1Over) =>
        /\ calls1 >= 1
        /\ InSeq("phase1_nonstream", wi.phases_succeeded)
               <=> (\E i \in 1..Len(events) : IsReasoningText(events[i]))

\* ------------------------------------------------------------- forwarding
\* the streaming phase-1 executor before its first chunk
Phase1Handler == [l |-> Phase1Init, w |-> WorkflowInfoInit, out |-> <<>>, brk |-> FALSE]

\* the chunks the executor takes from the decoder: the decoder is a generator
\* and is not resumed once the executor has left the loop
RECURSIVE ConsumedByPhase1(_, _)
ConsumedByPhase1(h, chunks) ==
    IF chunks = <<>> \/ h.brk THEN <<>>
    ELSE <<Head(chunks)>>
         \o ConsumedByPhase1(HandlePhase1Chunk(h, Head(chunks)), Tail(chunks))

ForwardableTypes == {"reasoning", "content", "phase1_complete", "reasoning_end"}

RECURSIVE TypesOf(_)
TypesOf(chunks) ==
    IF chunks = <<>> THEN <<>>
    ELSE (IF Head(chunks).type \in ForwardableTypes THEN <<Head(chunks).type>>
          ELSE <<>>)
         \o TypesOf(Tail(chunks))

\* a is b with some elements left out
RECURSIVE IsSubsequence(_, _)
IsSubsequence(a, b) ==
    IF a = <<>> THEN TRUE
    ELSE IF b = <<>> THEN FALSE
    ELSE IF Head(a) = Head(b) THEN IsSubsequence(Tail(a), Tail(b))
    ELSE IsSubsequence(a, Tail(b))

\* C28: in streaming phase 1 the reasoning, content, phase1_complete and
\* reasoning_end events the executor takes from the decoder all appear, in
\* the same order, among the events the executor yields; and the executor
\* yields a reasoning_end after the phase1_complete it yields.
C28_DecoderEventsAreForwarded ==
    pc = "rdec" =>
        LET out == HandlePhase1Chunks(Phase1Handler, emitted).out
        IN  /\ IsSubsequence(TypesOf(ConsumedByPhase1(Phase1Handler, emitted)),
                             TypesOf(out))
            /\ \A i \in 1..Len(out) :
                   out[i].type = "phase1_complete" =>
                       \E j \in (i + 1)..Len(out) : out[j].type = "reasoning_end"

\* the part that holds: every reasoning event the executor takes is yielded,
\* and a phase1_complete it takes is yielded as a phase1_complete
C28_ReasoningAndCompletionAreForwarded ==
    pc = "rdec" =>
        LET out == HandlePhase1Chunks(Phase1Handler, emitted).out
            taken == ConsumedByPhase1(Phase1Handler, emitted)
            Kept(chunks) == SelectSeq(chunks,
                                LAMBDA c : c.type \in {"reasoning", "phase1_complete"})
        IN  IsSubsequence(TypesOf(Kept(taken)), TypesOf(Kept(out)))

\* ------------------------------------------------ text of a delta object
\* most frames of one summarization response
MaxDeltaFrames == 1

\* a JSON value that may be null: <<>> is null, <<v>> is the value v
JsonNull == <<>>
Json(v) == <<v>>

\* the elements a "parts" list can hold: something that is not a dict, a dict
\* without "text", a dict whose "text" is null or a string
NonDictPart == [dict |-> FALSE, has_text |-> FALSE, text |-> JsonNull]
NoTextPart == [dict |-> TRUE, has_text |-> FALSE, text |-> JsonNull]
TextPart(t) == [dict |-> TRUE, has_text |-> TRUE, text |-> t]

PartsLists ==
    { <<>>,
      <<NonDictPart>>,
      <<NoTextPart, TextPart(Json(<<"P">>))>>,
      <<TextPart(Json(<<"P">>)), TextPart(Json(<<"Q">>))>>,
      <<TextPart(JsonNull), TextPart(Json(<<"P">>))>>,
      <<NonDictPart, NoTextPart>> }

\* one key of a delta: absent, or present with a value
AbsentKey == [has |-> FALSE, v |-> JsonNull]
Key(v) == [has |-> TRUE, v |-> v]

\* the delta dict with the keys that are present
MakeDelta(c, tc, t, p) ==
    LET full == [content |-> c, tool_calls |-> tc, text |-> t, parts |-> p]
    IN  [k \in {k \in DOMAIN full : full[k].has} |-> full[k].v]

Deltas ==
    { MakeDelta(c, tc, t, p) :
        c \in {AbsentKey, Key(JsonNull), Key(Json(EmptyText)), Key(Json(<<"A">>))},
        tc \in {AbsentKey, Key(Json(<<>>)), Key(Json(<<"call">>))},
        t \in {AbsentKey, Key(JsonNull), Key(Json(EmptyText)), Key(Json(<<"T">>))},
        p \in {AbsentKey} \cup {Key(Json(l)) : l \in PartsLists} }

\* "k" in delta and delta["k"] is not None
NotNone(delta, k) == k \in DOMAIN delta /\ delta[k] # JsonNull

\* "k" in delta and delta["k"], for a list or null
NonEmptyList(delta, k) == NotNone(delta, k) /\ delta[k][1] # <<>>

ToolCallPlaceholder == <<"[tool call]">>

\* for part in parts: the first dict with a "text" key decides
RECURSIVE FirstPartText(_)
FirstPartText(parts) ==
    IF parts = <<>> THEN Json(EmptyText)
    ELSE IF Head(parts).dict /\ Head(parts).has_text THEN Head(parts).text
    ELSE FirstPartText(Tail(parts))

\* the variant that probes "text" before "tool_calls"
extract_content_from_delta_text_first(delta) ==
    IF NotNone(delta, "content") THEN delta.content
    ELSE IF NotNone(delta, "text") THEN delta.text
    ELSE IF NonEmptyList(delta, "tool_calls") THEN Json(ToolCallPlaceholder)
    ELSE IF NonEmptyList(delta, "parts") THEN FirstPartText(delta.parts[1])
    ELSE Json(EmptyText)

\* _extract_content_from_delta for a dict: the value returned (null when the
\* deciding part's "text" is null)
extract_content_from_delta(delta) ==
    IF NotNone(delta, "content") THEN delta.content
    ELSE IF NonEmptyList(delta, "tool_calls") THEN Json(ToolCallPlaceholder)
    ELSE IF NotNone(delta, "text") THEN delta.text
    ELSE IF NonEmptyList(delta, "parts") THEN FirstPartText(delta.parts[1])
    ELSE Json(EmptyText)

\* _process_stream_response for one data frame with choices: the text
\* extracted and what is yielded (`if content: yield content`)
DeltaFrameResult(delta) ==
    LET content == extract_content_from_delta(delta)
    IN  [text |-> content,
         out |-> IF content # JsonNull /\ Truthy(content[1]) THEN <<content[1]>>
                 ELSE <<>>]

\* feed: the deltas of the response's frames; emitted: per frame handled, the
\* text extracted and the texts yielded
DeltaInit ==
    /\ cfg = IdleConfig
    /\ pc = "delta"
    /\ wi = WorkflowInfoInit
    /\ events = <<>>
    /\ calls1 = 0
    /\ calls2 = 0
    /\ ctx2 = <<>>
    /\ cb_calls = <<>>
    /\ p1 = Phase1Init
    /\ dec = DecoderInit
    /\ p2 = Phase2Init
    /\ sdec = SDecoderInit
    /\ feed \in UNION { [1..n -> Deltas] : n \in 1..MaxDeltaFrames }
    /\ emitted = <<>>
    /\ runs = <<>>

\* the next data frame of the response is handled
DeltaFrame ==
    /\ pc = "delta"
    /\ Len(emitted) < Len(feed)
    /\ emitted' = Append(emitted, DeltaFrameResult(feed[Len(emitted) + 1]))
    /\ UNCHANGED <<cfg, runs, pc, wi, events, calls1, calls2, ctx2, cb_calls, p1, dec, p2,
                   sdec, feed>>

DeltaNext == DeltaFrame

DeltaSpec == DeltaInit /\ [][DeltaNext]_vars

\* the first dict element of a parts list that has a "text" key, 0 if none
FirstTextIndex(parts) ==
    IF \E i \in 1..Len(parts) : parts[i].dict /\ parts[i].has_text
    THEN CHOOSE i \in 1..Len(parts) :
             /\ parts[i].dict /\ parts[i].has_text
             /\ \A j \in 1..(i - 1) : ~(parts[j].dict /\ parts[j].has_text)
    ELSE 0

\* C30: for every delta handled, the extracted text is the content field when
\* it is not null (the empty string included), else the tool-call placeholder
\* when tool_calls is non-empty, else the text field when it is not null, else
\* the text of the first parts element that has one, else the empty string;
\* and a text is yielded for the frame only when the extracted text is
\* non-empty, and then it is the extracted text.
C30_ExtractionPrecedence ==
    pc = "delta" =>
        \A i \in 1..Len(emitted) :
            LET delta == feed[i]
                r == emitted[i]
                c == NotNone(delta, "content")
                tc == NonEmptyList(delta, "tool_calls")
                t == NotNone(delta, "text")
                p == NonEmptyList(delta, "parts")
                       /\ FirstTextIndex(delta.parts[1]) # 0
            IN  /\ c => r.text = delta.content
                /\ (~c /\ tc) => r.text = Json(ToolCallPlaceholder)
                /\ (~c /\ ~tc /\ t) => r.text = delta.text
                /\ (~c /\ ~tc /\ ~t /\ p) =>
                       r.text = delta.parts[1][FirstTextIndex(delta.parts[1])].text
                /\ (~c /\ ~tc /\ ~t /\ ~p) => r.text = Json(EmptyText)
                /\ r.out # <<>> => (r.text # JsonNull /\ r.text[1] # EmptyText)
                /\ (r.text # JsonNull /\ r.text[1] # EmptyText) => r.out = <<r.text[1]>>
                /\ Len(r.out) <= 1

\* a delta whose content is null and which has tool calls and a text: the
\* placeholder was extracted and yielded
C30_Witness ==
    /\ pc = "delta"
    /\ \E i \in 1..Len(emitted) :
           /\ ~NotNone(feed[i], "content")
           /\ NonEmptyList(feed[i], "tool_calls")
           /\ NotNone(feed[i], "text")
           /\ Truthy(feed[i].text[1])
           /\ emitted[i].out = <<ToolCallPlaceholder>>

\* ------------------------------------------------- stream without completion
\* process() has left a streaming phase 1 that called the backend and whose
\* stream never brought the completion signal
Phase1StreamEndedIncomplete ==
    cfg.p1 = "stream" /\ Phase1Over /\ calls1 >= 1 /\ ~p1.phase1_completed

\* C29: when the streaming phase-1 attempt ends without phase1_complete, it
\* is a failed attempt: a phase-1 error event is yielded, phase1_stream is
\* not in phases_succeeded and WorkflowInfo reports no reasoning as obtained,
\* whatever reasoning chunks were received.
C29_IncompleteStreamIsAFailedAttempt ==
    Phase1StreamEndedIncomplete =>
        /\ ~InSeq("phase1_stream", wi.phases_succeeded)
        /\ ~wi.reasoning_obtained
        /\ wi.reasoning_content = NoneVal
        /\ \E i \in 1..Len(events) :
               events[i].type = "error" /\ events[i].phase = "phase1"

\* the stream brought reasoning chunks and ended without the signal
C29_Witness ==
    /\ Phase1StreamEndedIncomplete
    /\ Truthy(p1.reasoning_content)
    /\ \E i \in 1..Len(events) : events[i].type = "reasoning"

\* ------------------------------------------------------- undecodable lines
\* DeepSeekClient._process_stream_response over a whole sequence of lines:
\* the chunks it yields
RECURSIVE DecodeLines(_, _)
DecodeLines(d, lines) ==
    IF lines = <<>> THEN <<>>
    ELSE LET r == DecodeFrame(d, Head(lines))
         IN  r.out \o DecodeLines(r.d, Tail(lines))

\* the stream without its undecodable lines
DecodableLines(lines) == SelectSeq(lines, LAMBDA f : f.kind = "data")

\* C31: the events the reasoning decoder has emitted for a stream are those
\* it emits for the same stream with the malformed and unprefixed lines left
\* out: such a line changes nothing for the lines around it, yields no error
\* event and does not end the decoding.
C31_UndecodableLinesAreSkipped ==
    pc = "rdec" =>
        /\ emitted = DecodeLines(DecoderInit, DecodableLines(feed))
        /\ \A i \in 1..Len(emitted) : emitted[i].type # "error"

\* an undecodable line stood between two lines that carried reasoning, and
\* both were emitted
C31_Witness ==
    /\ pc = "rdec"
    /\ Len(feed) = 3
    /\ Truthy(feed[1].rc) /\ feed[2].kind = "junk" /\ Truthy(feed[3].rc)
    /\ Len(emitted) = 2
    /\ emitted[1].type = "reasoning" /\ emitted[2].type = "reasoning"

\* ------------------------------------------------- content used as reasoning
\* the first line whose content delta is taken as reasoning: a non-empty
\* content delta with no reasoning_content text in that line or before it;
\* 0 if there is none
FirstContentAsReasoning(lines) ==
    LET Is(k) == /\ Truthy(lines[k].c)
                 /\ \A j \in 1..k : ~Truthy(lines[j].rc)
                 /\ \A j \in 1..(k - 1) : ~Truthy(lines[j].c)
    IN  IF \E k \in 1..Len(lines) : Is(k)
        THEN CHOOSE k \in 1..Len(lines) : Is(k)
        ELSE 0

\* the content deltas of the lines from the k-th on, in stream order
RECURSIVE ContentDeltasFrom(_, _)
ContentDeltasFrom(lines, k) ==
    IF k > Len(lines) THEN EmptyText
    ELSE lines[k].c \o ContentDeltasFrom(lines, k + 1)

C33_OutcomeRecordedOnce ==
    (cfg.p2 = "stream" /\ Phase2Over /\ InSeq("phase2_stream", wi.phases_failed)) =>
        \E i \in 1..Len(events) :
            /\ events[i].type = "error"
            /\ events[i].phase = "phase2_stream"
            /\ wi.errors["phase2_stream"] = Some(events[i].content)

\* ------------------------------------------------------------- termination
\* process() stands at the head of a phase-1 / phase-2 executor's retry loop,
\* about to call the backend once more
AboutToCall1 == pc \in {"p1s_call", "p1n_call"}

AboutToCall2 == pc \in {"p2s_call", "p2n_call"}

\* C34: every executor leaves its retry loop after a bounded number of
\* backend calls, whatever the calls do: no executor is about to call its
\* backend again after MaxCalls calls (more than any configured retry_num
\* allows), so the run goes on to its end.
C34_ExecutorsStopCalling ==
    /\ AboutToCall1 => calls1 < MaxCalls
    /\ AboutToCall2 => calls2 < MaxCalls

\* the part that holds: the streaming executors and the batch phase 2 make at
\* most one call per run
C34_OtherExecutorsCallOnce ==
    /\ cfg.p1 = "stream" => calls1 <= 1
    /\ calls2 <= 1

\* ----------------------------------------------------------- executed phases
\* C35: whatever mark_phase_* calls are made on a WorkflowInfo, every phase in
\* phases_succeeded or phases_failed is in phases_executed, and no call takes
\* a phase out of phases_executed.
C35_MarkedPhasesAreExecuted ==
    /\ [](\A phase \in PhaseNames :
              (InSeq(phase, wi.phases_succeeded) \/ InSeq(phase, wi.phases_failed))
                  => InSeq(phase, wi.phases_executed))
    /\ [][\A phase \in PhaseNames :
              InSeq(phase, wi.phases_executed) => InSeq(phase, wi.phases_executed')]_vars

\* one phase is marked succeeded, another failed, and both are executed
C35_Witness ==
    /\ pc = "info"
    /\ Len(wi.phases_executed) = 2
    /\ Len(wi.phases_succeeded) = 1
    /\ Len(wi.phases_failed) = 1

\* C36: whatever mark_phase_* calls are made on a WorkflowInfo, a phase with
\* a message in the errors map is in phases_failed: no message stays behind
\* for a phase that was marked succeeded afterwards.
C36_ErrorsOnlyForFailedPhases ==
    pc = "info" =>
        \A phase \in PhaseNames :
            ~IsNone(wi.errors[phase]) => InSeq(phase, wi.phases_failed)

\* ------------------------------------------------------- result of a request
\* most events of a run whose result is followed
MaxResultEvents == 2

\* a variant of process_nonstream_call that reports the failure by the status
\* code alone
process_nonstream_call_status_only(evs, exc) ==
    IF exc # <<>>
    THEN [content |-> EmptyText, content_is_dict |-> FALSE,
          error |-> NoneVal, status_code |-> 500]
    ELSE [content |-> EmptyText, content_is_dict |-> FALSE,
          error |-> NoneVal,
          status_code |-> IF \E i \in 1..Len(evs) : evs[i].type = "error"
                          THEN 500 ELSE 200]

\* process_nonstream as a whole: the try block, and the except clause for an
\* exception exc raised in it (<<>>: none), which answers
\* WorkflowResult(error=str(e), status_code=500)
process_nonstream_call(evs, exc) ==
    IF exc # <<>>
    THEN [content |-> EmptyText, content_is_dict |-> FALSE,
          error |-> Some(ExcText(exc[1])), status_code |-> 500]
    ELSE process_nonstream(evs)

\* events: what the workflow yields to the aggregator; feed: the exception
\* raised inside process_nonstream, if any; emitted: the WorkflowResult returned
ResultInit ==
    /\ cfg = IdleConfig
    /\ pc = "result"
    /\ wi = WorkflowInfoInit
    /\ events \in UNION { [1..n -> AggEvents] : n \in 0..MaxResultEvents }
    /\ calls1 = 0
    /\ calls2 = 0
    /\ ctx2 = <<>>
    /\ cb_calls = <<>>
    /\ p1 = Phase1Init
    /\ dec = DecoderInit
    /\ p2 = Phase2Init
    /\ sdec = SDecoderInit
    /\ feed \in {<<>>} \cup { <<e>> : e \in ExcKinds }
    /\ emitted = <<>>
    /\ runs = <<>>

\* process_nonstream returns
ResultReturn ==
    /\ pc = "result"
    /\ emitted = <<>>
    /\ emitted' = <<process_nonstream_call(events, feed)>>
    /\ UNCHANGED <<cfg, runs, pc, wi, events, calls1, calls2, ctx2, cb_calls, p1, dec, p2,
                   sdec, feed>>

ResultNext == ResultReturn

ResultSpec == ResultInit /\ [][ResultNext]_vars

\* C37: every WorkflowResult process_nonstream returns has an error that is
\* not None exactly when its status_code is not 200.
C37_ErrorIffStatusNot200 ==
    pc = "result" =>
        \A i \in 1..Len(emitted) :
            (~IsNone(emitted[i].error)) <=> (emitted[i].status_code # 200)

\* a result returned from the except clause, with error and status 500
C37_Witness ==
    /\ pc = "result"
    /\ feed # <<>>
    /\ Len(emitted) = 1
    /\ emitted[1].status_code = 500
    /\ ~IsNone(emitted[1].error)

\* for the runs of the workflow itself the result never carries an error:
\* every event has a "content" key, so status_code stays 200 and error None
\* even when the run ended with error events
C37_WorkflowRunsAnswer200 ==
    pc = "done" =>
        /\ IsNone(process_nonstream(events).error)
        /\ process_nonstream(events).status_code = 200

\* ------------------------------------------------------ one completion only
CountType(chunks, type) == Len(SelectSeq(chunks, LAMBDA c : c.type = type))

\* at most one phase1_complete, at most one reasoning_end, and no reasoning
\* or content chunk after a phase1_complete
CompletesOnce(chunks) ==
    /\ CountType(chunks, "phase1_complete") <= 1
    /\ CountType(chunks, "reasoning_end") <= 1
    /\ \A i, j \in 1..Len(chunks) :
           (chunks[i].type = "phase1_complete" /\ i < j)
               => chunks[j].type \notin {"reasoning", "content"}

\* C38 as stated: whatever frames the stream holds, the chunks the decoder
\* emits when read to the end of the stream complete once: frames after the
\* completion signal do not set off another completion.
C38_DecoderCompletesOnce ==
    pc = "rdec" => CompletesOnce(emitted)

\* C38 amended: the chunks the streaming phase-1 executor takes from the
\* decoder complete once, the executor leaving its loop at the first
\* phase1_complete; they end with that chunk and hold no reasoning_end.
C38_ConsumedChunksCompleteOnce ==
    pc = "rdec" =>
        LET taken == ConsumedByPhase1(Phase1Handler, emitted)
        IN  /\ CompletesOnce(taken)
            /\ CountType(taken, "reasoning_end") = 0
            /\ \A i \in 1..Len(taken) :
                   taken[i].type = "phase1_complete" => i = Len(taken)

\* the stream went on after the completion signal and the decoder, read to
\* the end, completed again, while the executor took one completion
C38_Witness ==
    /\ pc = "rdec"
    /\ CountType(emitted, "phase1_complete") >= 2
    /\ CountType(ConsumedByPhase1(Phase1Handler, emitted), "phase1_complete") = 1

\* ------------------------------------------- streaming against non-streaming
\* the content deltas of the frames generate_stream_response sends for the
\* summary events of evs, in order, without the "Final answer:" prefix frame
RECURSIVE SummaryDeltasSent(_, _)
SummaryDeltasSent(t, evs) ==
    IF evs = <<>> THEN EmptyText
    ELSE LET r == TranslateChunk(t, Head(evs))
             sent == IF Head(evs).type # "summary" THEN <<>>
                     ELSE SelectSeq(r.out,
                              LAMBDA f : ~f.done
                                         /\ f.content # <<"Final answer:\n">>)
             Joined[i \in 0..Len(sent)] ==
                 IF i = 0 THEN EmptyText ELSE Joined[i - 1] \o sent[i].content
         IN  Joined[Len(sent)] \o SummaryDeltasSent(r.t, Tail(evs))

C39_TextSummariesAgree ==
    (/\ pc = "done"
     /\ EventIndices(IsSummaryText) # {}
     /\ \A i \in 1..Len(events) : events[i].type = "summary" => ~events[i].dict) =>
        /\ ~process_nonstream(events).content_is_dict
        /\ process_nonstream(events).content
               = SummaryDeltasSent(TranslatorInit, events)

====
